---- MODULE Spec2Model ----
(***************************************************************************)
(* AI query gateway of the scripture reader (services/geminiService, kept  *)
(* in src/components/VerseTools.tsx lines 360-505): the process-wide       *)
(* cooldown timestamp, the analysis cache, the per-mode chat sessions and  *)
(* the lazily created client, driven by sendMessageToBot, getVerseAnalysis *)
(* and searchBibleByKeyword.  Every exported function is asynchronous: its *)
(* synchronous prefix (up to the await of the network call) is one action, *)
(* and the continuation after the await is a second action that consumes   *)
(* the upstream response.  Texts and error messages are tuples of string   *)
(* fragments; the empty string is the empty tuple.                         *)
(***************************************************************************)
EXTENDS Integers, Sequences, FiniteSets, Bags, TLC

VARIABLES
    now,                  \* Date.now(), milliseconds
    apiKey,               \* import.meta.env.VITE_API_KEY is set
    ai,                   \* the client handle `ai` has been created
    chatInstances,        \* Map<ChatMode, Chat>: mode -> chat id, 0 = no entry
    chatsCreated,         \* number of aiInstance.chats.create calls so far
    verseCache,           \* Map<string, string>
    globalCooldownUntil,  \* milliseconds
    inflight,             \* bag of network calls awaiting their response
    analysed,             \* per analyze input, the texts its first and its latest successful request returned
    calls,                \* number of gateway calls made so far
    rateLimitedAt,        \* time of the latest rate-limit response, -1 = none yet
    last,                 \* what the latest step did and handed to its caller
    svcCall,              \* the scripture-service call under way: function and argument
    svcRequests,          \* its HTTP requests: request id -> "pending" or the response
    svcResult,            \* what the call handed to its caller so far
    chatbot,              \* state of the Chatbot component and its send under way
    app,                  \* state of the App component and its requests under way
    tools                 \* state of the VerseTools panel and its requests under way

gatewayVars == <<now, apiKey, ai, chatInstances, chatsCreated, verseCache,
                 globalCooldownUntil, inflight, analysed, calls, rateLimitedAt, last>>
svcVars == <<svcCall, svcRequests, svcResult>>
viewVars == <<app, tools>>
vars == <<gatewayVars, svcVars, chatbot, viewVars>>

(***************************************************************************)
(* Bounds of the model                                                     *)
(***************************************************************************)
MaxTicks == 2
MaxInFlight == 2
MaxCalls == 3

(***************************************************************************)
(* Program constants and input domains                                     *)
(***************************************************************************)
CooldownMs == 60000

\* the three chat modes of the selector; the two that are not the flash
\* model are told apart only by being different map keys
FlashMode == "gemini-2.5-flash"
ChatModes == {FlashMode, "mode-a", "mode-b"}

VRef(b, c, v) == [book |-> b, chapter |-> c, verse |-> v]
NoRef == VRef("", 0, 0)

\* the (verseRef, analysisType) pairs the model calls getVerseAnalysis with
AnalyzeInputs ==
    { <<VRef("John", 1, 11), "Interlinear">>,
      <<VRef("John", 11, 1), "Interlinear">> }

\* texts the remote service answers with, and messages it fails with
Texts == { <<"t1">>, <<"t2">> }
UpstreamMessages == { <<"got ", "429", " Too Many Requests">>,
                      <<"RESOURCE_EXHAUSTED">>,
                      <<"500", " Internal">>,
                      <<>> }
Responses == { [status |-> "ok", text |-> t] : t \in Texts }
             \cup { [status |-> "error", text |-> m] : m \in UpstreamMessages }
NoResp == [status |-> "none", text |-> <<>>]

\* the clock starts after the epoch and moves on in steps of 1 ms and of
\* 1 ms less than the cooldown; TicksOf counts the steps taken to reach t
TickSteps == {1, CooldownMs - 1}
TicksOf(t) == ((t - 1) \div (CooldownMs - 1)) + ((t - 1) % (CooldownMs - 1))

(***************************************************************************)
(* Errors                                                                  *)
(***************************************************************************)
Err(n, m) == [name |-> n, message |-> m]
ApiKeyError(m) == Err("ApiKeyError", m)
NoErr == Err("", <<>>)

Includes(msg, word) == \E i \in 1..Len(msg) : msg[i] = word

IsRateLimitMessage(msg) ==
    Includes(msg, "429") \/ Includes(msg, "RESOURCE_EXHAUSTED")

CeilDiv(a, b) == (a + b - 1) \div b

Cooling(t) == t < globalCooldownUntil

CoolingError(t) ==
    Err("Error", <<"AI cooling down. Try again in ",
                   ToString(CeilDiv(globalCooldownUntil - t, 1000)), "s.">>)

BusyError == Err("Error", <<"AI is busy. Please wait 60 seconds and try again.">>)

(***************************************************************************)
(* getAiInstance: the handle is created once, from the credential          *)
(***************************************************************************)
\* variant: the client is created whether or not the credential is set
GetAiInstance_NoKeyCheck == [ok |-> TRUE, ai |-> TRUE, err |-> NoErr]

GetAiInstance ==
    IF ai THEN [ok |-> TRUE, ai |-> TRUE, err |-> NoErr]
    ELSE IF ~apiKey
         THEN [ok |-> FALSE, ai |-> FALSE, err |-> ApiKeyError(<<"API key missing.">>)]
         ELSE [ok |-> TRUE, ai |-> TRUE, err |-> NoErr]

(***************************************************************************)
(* safeGenerate.  The catch clause rewrites a rate-limit error and starts  *)
(* the cooldown; every other error is rethrown as it is.                   *)
(***************************************************************************)
\* variant: every caught error starts the cooldown
SafeGenerateCatch_AnyError(err, t) ==
    [err |-> IF IsRateLimitMessage(err.message) THEN BusyError ELSE err,
     cooldown |-> t + CooldownMs]

SafeGenerateCatch(err, t) ==
    IF IsRateLimitMessage(err.message)
    THEN [err |-> BusyError, cooldown |-> t + CooldownMs]
    ELSE [err |-> err, cooldown |-> globalCooldownUntil]

\* what the second Date.now() of a refusal can read: the clock may have
\* moved on since the first reading, and never moves back; a call that is
\* not refused reads the clock once
LaterReads ==
    IF Cooling(now) /\ TicksOf(now) < MaxTicks
    THEN {now} \cup {now + d : d \in TickSteps}
    ELSE {now}

\* synchronous prefix: cooldown check, then the client, then the request;
\* the refusal reads the clock again (t) for the seconds of its message
SafeGenerateCall(t) ==
    IF Cooling(now)
    THEN [await |-> FALSE, err |-> CoolingError(t), ai |-> ai,
          cooldown |-> globalCooldownUntil, now |-> t]
    ELSE LET g == GetAiInstance IN
         IF ~g.ok
         THEN LET c == SafeGenerateCatch(g.err, now) IN
              [await |-> FALSE, err |-> c.err, ai |-> g.ai, cooldown |-> c.cooldown,
               now |-> now]
         ELSE [await |-> TRUE, err |-> NoErr, ai |-> g.ai,
               cooldown |-> globalCooldownUntil, now |-> now]

\* variant: the cooldown is checked again when the response is there
SafeGenerateSettle_RechecksCooldown(resp) ==
    IF Cooling(now)
    THEN [ok |-> FALSE, text |-> <<>>, err |-> CoolingError(now),
          cooldown |-> globalCooldownUntil]
    ELSE IF resp.status = "ok"
    THEN [ok |-> TRUE, text |-> resp.text, err |-> NoErr,
          cooldown |-> globalCooldownUntil]
    ELSE LET c == SafeGenerateCatch(Err("Error", resp.text), now) IN
         [ok |-> FALSE, text |-> <<>>, err |-> c.err, cooldown |-> c.cooldown]

\* continuation after the await of generateContent
SafeGenerateSettle(resp) ==
    IF resp.status = "ok"
    THEN [ok |-> TRUE, text |-> resp.text, err |-> NoErr,
          cooldown |-> globalCooldownUntil]
    ELSE LET c == SafeGenerateCatch(Err("Error", resp.text), now) IN
         [ok |-> FALSE, text |-> <<>>, err |-> c.err, cooldown |-> c.cooldown]

(***************************************************************************)
(* Requests in flight and the record of the latest step                    *)
(***************************************************************************)
Req(op, mode, vref, kind, chat, fresh) ==
    [op |-> op, mode |-> mode, vref |-> vref, kind |-> kind, chat |-> chat,
     fresh |-> fresh]

InFlightCount == BagCardinality(inflight)
Launch(r) == inflight (+) SetToBag({r})
Land(r) == inflight (-) SetToBag({r})

Event(r, phase, result, name, text, net, resp) ==
    [op |-> r.op, phase |-> phase, mode |-> r.mode, vref |-> r.vref, kind |-> r.kind,
     chat |-> r.chat, fresh |-> r.fresh, result |-> result, name |-> name,
     text |-> text, net |-> net, resp |-> resp]

NoEvent == Event(Req("none", "", NoRef, "", 0, FALSE), "none", "none", "", <<>>,
                 FALSE, NoResp)

NotAnalysed == [set |-> FALSE, text |-> <<>>, first |-> <<>>]

\* one more call of an exported gateway function
Called ==
    /\ calls < MaxCalls
    /\ calls' = calls + 1
    /\ rateLimitedAt' = rateLimitedAt
    /\ UNCHANGED <<svcVars, viewVars>>

\* a response has arrived for a call in flight
Settled(resp) ==
    /\ calls' = calls
    /\ rateLimitedAt' = IF resp.status = "error" /\ IsRateLimitMessage(resp.text)
                        THEN now ELSE rateLimitedAt
    /\ UNCHANGED <<svcVars, viewVars>>

(***************************************************************************)
(* Initial state: module globals as declared                               *)
(***************************************************************************)
\* no scripture-service call is under way
NoCall == [fn |-> "none", arg |-> << >>]
Pending == [status |-> "pending"]

SvcIdle ==
    /\ svcCall = NoCall
    /\ svcRequests = << >>
    /\ svcResult = Pending

\* no component is mounted
Unmounted == [mounted |-> FALSE]

ViewsOff ==
    /\ chatbot = Unmounted
    /\ app = Unmounted
    /\ tools = Unmounted

GatewayInit ==
    /\ now = 1
    /\ apiKey \in BOOLEAN
    /\ ai = FALSE
    /\ chatInstances = [m \in ChatModes |-> 0]
    /\ chatsCreated = 0
    /\ verseCache = << >>
    /\ globalCooldownUntil = 0
    /\ inflight = EmptyBag
    /\ analysed = [x \in AnalyzeInputs |-> NotAnalysed]
    /\ calls = 0
    /\ rateLimitedAt = -1
    /\ last = NoEvent

Init ==
    /\ GatewayInit
    /\ SvcIdle
    /\ ViewsOff

\* the clock advances
Tick(d) ==
    /\ TicksOf(now) < MaxTicks
    /\ now' = now + d
    /\ last' = NoEvent
    /\ UNCHANGED <<apiKey, ai, chatInstances, chatsCreated, verseCache,
                   globalCooldownUntil, inflight, analysed, calls, rateLimitedAt>>
    /\ UNCHANGED <<svcVars, viewVars, chatbot>>

(***************************************************************************)
(* sendMessageToBot: the flash mode is a one-shot safeGenerate call, every *)
(* other mode sends the message through the chat of that mode.  Whatever   *)
(* is thrown inside is caught and returned as the reply text.              *)
(***************************************************************************)
ReplyText(err) == IF err.message # <<>> THEN err.message ELSE <<"AI error">>

\* variant: a chat is created and registered on every turn
GetChat_AlwaysCreates(mode) ==
    LET g == GetAiInstance IN
    IF ~g.ok
    THEN [ok |-> FALSE, err |-> g.err, ai |-> g.ai, chat |-> 0, fresh |-> FALSE,
          chats |-> chatInstances, created |-> chatsCreated]
    ELSE [ok |-> TRUE, err |-> NoErr, ai |-> g.ai, chat |-> chatsCreated + 1,
          fresh |-> TRUE,
          chats |-> [chatInstances EXCEPT ![mode] = chatsCreated + 1],
          created |-> chatsCreated + 1]

GetChat(mode) ==
    IF chatInstances[mode] = 0
    THEN LET g == GetAiInstance IN
         IF ~g.ok
         THEN [ok |-> FALSE, err |-> g.err, ai |-> g.ai, chat |-> 0, fresh |-> FALSE,
               chats |-> chatInstances, created |-> chatsCreated]
         ELSE [ok |-> TRUE, err |-> NoErr, ai |-> g.ai, chat |-> chatsCreated + 1,
               fresh |-> TRUE,
               chats |-> [chatInstances EXCEPT ![mode] = chatsCreated + 1],
               created |-> chatsCreated + 1]
    ELSE [ok |-> TRUE, err |-> NoErr, ai |-> ai, chat |-> chatInstances[mode],
          fresh |-> FALSE, chats |-> chatInstances, created |-> chatsCreated]

SendFlash ==
    \E t \in LaterReads :
    LET g == SafeGenerateCall(t)
        r == Req("chat", FlashMode, NoRef, "", 0, FALSE) IN
    /\ g.await => InFlightCount < MaxInFlight
    /\ Called
    /\ now' = g.now
    /\ ai' = g.ai
    /\ globalCooldownUntil' = g.cooldown
    /\ IF g.await
       THEN /\ inflight' = Launch(r)
            /\ last' = Event(r, "call", "pending", "", <<>>, TRUE, NoResp)
       ELSE /\ inflight' = inflight
            /\ last' = Event(r, "call", "return", "", ReplyText(g.err), FALSE, NoResp)
    /\ UNCHANGED <<apiKey, chatInstances, chatsCreated, verseCache, analysed>>

SendChat(mode) ==
    LET c == GetChat(mode)
        r == Req("chat", mode, NoRef, "", c.chat, c.fresh) IN
    /\ mode # FlashMode
    /\ c.ok => InFlightCount < MaxInFlight
    /\ Called
    /\ ai' = c.ai
    /\ chatInstances' = c.chats
    /\ chatsCreated' = c.created
    /\ IF c.ok
       THEN /\ inflight' = Launch(r)
            /\ last' = Event(r, "call", "pending", "", <<>>, TRUE, NoResp)
       ELSE /\ inflight' = inflight
            /\ last' = Event(r, "call", "return", "", ReplyText(c.err), FALSE, NoResp)
    /\ UNCHANGED <<now, apiKey, verseCache, globalCooldownUntil, analysed>>

SendMessageToBot(mode) ==
    IF mode = FlashMode THEN SendFlash ELSE SendChat(mode)

\* continuation of sendMessageToBot once the awaited call settles
SendMessageToBotSettle(r, resp) ==
    /\ r.op = "chat"
    /\ BagIn(r, inflight)
    /\ inflight' = Land(r)
    /\ IF r.mode = FlashMode
       THEN LET g == SafeGenerateSettle(resp) IN
            /\ globalCooldownUntil' = g.cooldown
            /\ last' = Event(r, "settle", "return", "",
                             IF g.ok THEN g.text ELSE ReplyText(g.err), FALSE, resp)
       ELSE /\ globalCooldownUntil' = globalCooldownUntil
            /\ last' = Event(r, "settle", "return", "",
                             IF resp.status = "ok" THEN resp.text
                             ELSE ReplyText(Err("Error", resp.text)), FALSE, resp)
    /\ Settled(resp)
    /\ UNCHANGED <<now, apiKey, ai, chatInstances, chatsCreated, verseCache, analysed>>

(***************************************************************************)
(* getVerseAnalysis: the cache is looked up first; a miss goes through     *)
(* safeGenerate and the text is stored once the call has returned.         *)
(***************************************************************************)
\* variant: the parts of the key are joined without a separator
cacheKey_Unseparated(verseRef, analysisType) ==
    verseRef.book \o ToString(verseRef.chapter) \o ToString(verseRef.verse)
        \o analysisType

cacheKey(verseRef, analysisType) ==
    verseRef.book \o "-" \o ToString(verseRef.chapter) \o "-"
        \o ToString(verseRef.verse) \o "-" \o analysisType

\* variant: the cooldown is checked before the cache is looked up
CacheHas_AfterCooldown(key) == key \in DOMAIN verseCache /\ ~(now < globalCooldownUntil)

CacheHas(key) == key \in DOMAIN verseCache

\* variant: a stored text is kept, only a new key is added
CacheSet_KeepsExisting(key, text) ==
    [k \in DOMAIN verseCache \cup {key} |->
        IF k \in DOMAIN verseCache THEN verseCache[k] ELSE text]

CacheSet(key, text) == [k \in DOMAIN verseCache \cup {key} |->
                           IF k = key THEN text ELSE verseCache[k]]

GetVerseAnalysis(verseRef, analysisType) ==
    LET key == cacheKey(verseRef, analysisType)
        r == Req("analyze", "", verseRef, analysisType, 0, FALSE) IN
    IF CacheHas(key)
    THEN /\ Called
         /\ last' = Event(r, "call", "return", "", verseCache[key], FALSE, NoResp)
         /\ UNCHANGED <<now, apiKey, ai, chatInstances, chatsCreated, verseCache,
                        globalCooldownUntil, inflight, analysed>>
    ELSE \E t \in LaterReads :
         LET g == SafeGenerateCall(t) IN
         /\ g.await => InFlightCount < MaxInFlight
         /\ Called
         /\ now' = g.now
         /\ ai' = g.ai
         /\ globalCooldownUntil' = g.cooldown
         /\ IF g.await
            THEN /\ inflight' = Launch(r)
                 /\ last' = Event(r, "call", "pending", "", <<>>, TRUE, NoResp)
            ELSE /\ inflight' = inflight
                 /\ last' = Event(r, "call", "throw", g.err.name, g.err.message,
                                  FALSE, NoResp)
         /\ UNCHANGED <<apiKey, chatInstances, chatsCreated, verseCache, analysed>>

\* variant: a failed request removes the entry of its key
CacheAfterAnalysis_EvictsOnFailure(r, g) ==
    IF g.ok THEN CacheSet(cacheKey(r.vref, r.kind), g.text)
    ELSE [k \in DOMAIN verseCache \ {cacheKey(r.vref, r.kind)} |-> verseCache[k]]

\* variant: the message of a failed request is stored like a result
CacheAfterAnalysis_StoresFailure(r, g) ==
    CacheSet(cacheKey(r.vref, r.kind), IF g.ok THEN g.text ELSE g.err.message)

\* what the continuation of getVerseAnalysis leaves in the cache
CacheAfterAnalysis(r, g) ==
    IF g.ok THEN CacheSet(cacheKey(r.vref, r.kind), g.text) ELSE verseCache

GetVerseAnalysisSettle(r, resp) ==
    LET g == SafeGenerateSettle(resp) IN
    /\ r.op = "analyze"
    /\ BagIn(r, inflight)
    /\ inflight' = Land(r)
    /\ globalCooldownUntil' = g.cooldown
    /\ verseCache' = CacheAfterAnalysis(r, g)
    /\ IF g.ok
       THEN /\ analysed' = [analysed EXCEPT ![<<r.vref, r.kind>>] =
                               [set |-> TRUE, text |-> g.text,
                                first |-> IF @.set THEN @.first ELSE g.text]]
            /\ last' = Event(r, "settle", "return", "", g.text, FALSE, resp)
       ELSE /\ analysed' = analysed
            /\ last' = Event(r, "settle", "throw", g.err.name, g.err.message,
                             FALSE, resp)
    /\ Settled(resp)
    /\ UNCHANGED <<now, apiKey, ai, chatInstances, chatsCreated>>

(***************************************************************************)
(* searchBibleByKeyword: safeGenerate inside try/catch; the catch logs the *)
(* error and returns the empty string.                                     *)
(***************************************************************************)
\* variant: the error is thrown on to the caller
KeywordCatch_Rethrows(err) == [result |-> "throw", name |-> err.name, text |-> err.message]

KeywordCatch(err) == [result |-> "return", name |-> "", text |-> <<>>]

SearchBibleByKeyword ==
    \E t \in LaterReads :
    LET g == SafeGenerateCall(t)
        c == KeywordCatch(g.err)
        r == Req("keyword", "", NoRef, "", 0, FALSE) IN
    /\ g.await => InFlightCount < MaxInFlight
    /\ Called
    /\ now' = g.now
    /\ ai' = g.ai
    /\ globalCooldownUntil' = g.cooldown
    /\ IF g.await
       THEN /\ inflight' = Launch(r)
            /\ last' = Event(r, "call", "pending", "", <<>>, TRUE, NoResp)
       ELSE /\ inflight' = inflight
            /\ last' = Event(r, "call", c.result, c.name, c.text, FALSE, NoResp)
    /\ UNCHANGED <<apiKey, chatInstances, chatsCreated, verseCache, analysed>>

SearchBibleByKeywordSettle(r, resp) ==
    LET g == SafeGenerateSettle(resp)
        c == KeywordCatch(g.err) IN
    /\ r.op = "keyword"
    /\ BagIn(r, inflight)
    /\ inflight' = Land(r)
    /\ globalCooldownUntil' = g.cooldown
    /\ last' = IF g.ok
               THEN Event(r, "settle", "return", "", g.text, FALSE, resp)
               ELSE Event(r, "settle", c.result, c.name, c.text, FALSE, resp)
    /\ Settled(resp)
    /\ UNCHANGED <<now, apiKey, ai, chatInstances, chatsCreated, verseCache, analysed>>

(***************************************************************************)
(* Specification                                                           *)
(***************************************************************************)
\* the gateway called by any caller; the Chatbot component is not mounted
Next ==
    \/ \E d \in TickSteps : Tick(d)
    \/ \E m \in ChatModes : SendMessageToBot(m) /\ UNCHANGED chatbot
    \/ \E r \in BagToSet(inflight), resp \in Responses :
          SendMessageToBotSettle(r, resp) /\ UNCHANGED chatbot
    \/ \E x \in AnalyzeInputs : GetVerseAnalysis(x[1], x[2]) /\ UNCHANGED chatbot
    \/ \E r \in BagToSet(inflight), resp \in Responses :
          GetVerseAnalysisSettle(r, resp) /\ UNCHANGED chatbot
    \/ SearchBibleByKeyword /\ UNCHANGED chatbot
    \/ \E r \in BagToSet(inflight), resp \in Responses :
          SearchBibleByKeywordSettle(r, resp) /\ UNCHANGED chatbot

Spec == Init /\ [][Next]_vars

TypeOK ==
    /\ now \in Nat
    /\ apiKey \in BOOLEAN
    /\ ai \in BOOLEAN
    /\ chatInstances \in [ChatModes -> Nat]
    /\ chatsCreated \in Nat
    /\ globalCooldownUntil \in Nat
    /\ InFlightCount <= MaxInFlight
    /\ calls \in 0..MaxCalls
    /\ rateLimitedAt \in Nat \cup {-1}

(***************************************************************************)
(* Vocabulary of the properties.  `last` describes the step that led to    *)
(* the current state: a call (the synchronous prefix of an exported        *)
(* function) or a settle (its continuation after the await).               *)
(***************************************************************************)
IsCall == last.phase = "call"
IsSettle == last.phase = "settle"
Refused == IsCall /\ last.result # "pending"
LastKey == cacheKey(last.vref, last.kind)
LastInput == <<last.vref, last.kind>>
RateLimited(resp) ==
    /\ resp.status = "error"
    /\ \E i \in 1..Len(resp.text) : resp.text[i] \in {"429", "RESOURCE_EXHAUSTED"}
UpstreamFailure(resp) == resp.status = "error" /\ ~RateLimited(resp)
SessionModes == ChatModes \ {FlashMode}

(***************************************************************************)
(* C1.  While now < cooldownUntil every AI request - a one-shot generate,  *)
(* a chat turn in any mode, an analyze call that misses the cache, a       *)
(* keyword search - fails at once and performs no network call.            *)
(* The chat turns of the session modes do not go through safeGenerate and  *)
(* are sent although the gateway is cooling.                               *)
(***************************************************************************)
C1_CoolingRefusesEveryRequest ==
    (/\ IsCall
     /\ now < globalCooldownUntil
     /\ (last.op = "analyze" => LastKey \notin DOMAIN verseCache))
    => (last.result \in {"return", "throw"} /\ ~last.net)

(***************************************************************************)
(* C2.  Whenever a request of any kind fails with a rate-limit message     *)
(* ("429" or "RESOURCE_EXHAUSTED") cooldownUntil becomes the time of the   *)
(* failure plus 60 seconds.  A chat turn of a session mode that fails so   *)
(* is only turned into reply text; the cooldown is not started.            *)
(***************************************************************************)
C2_RateLimitStartsCooldown ==
    (IsSettle /\ RateLimited(last.resp)) => globalCooldownUntil = now + 60000

(***************************************************************************)
(* C3.  After a rate-limit failure at time t a request issued at a time    *)
(* >= t + 60 s (t + 60 s included) is not refused and reaches the remote   *)
(* service, and a request issued before t + 60 s is refused; t is the      *)
(* latest rate-limit failure.  Fails for the chat turns of the session     *)
(* modes (never refused, C1) and after a rate-limit failure of such a turn *)
(* (no cooldown, C2).                                                      *)
(***************************************************************************)
C3_CooldownWindow ==
    (/\ IsCall
     /\ rateLimitedAt >= 0
     /\ (last.op = "analyze" => LastKey \notin DOMAIN verseCache))
    => /\ now >= rateLimitedAt + 60000 => (last.result = "pending" /\ last.net)
       /\ now < rateLimitedAt + 60000 => (last.result # "pending" /\ ~last.net)

(***************************************************************************)
(* C4.  getVerseAnalysis on a key that is in the cache returns the stored  *)
(* text and performs no network call, in every cooldown state.             *)
(***************************************************************************)
C4_CacheHitIgnoresCooldown ==
    (IsCall /\ last.op = "analyze" /\ LastKey \in DOMAIN verseCache)
    => /\ last.result = "return"
       /\ last.text = verseCache[LastKey]
       /\ ~last.net

C4_Witness ==
    /\ IsCall /\ last.op = "analyze" /\ LastKey \in DOMAIN verseCache
    /\ last.result = "return"
    /\ now < globalCooldownUntil

C6_FailureNotCached ==
    [][ /\ (last'.op = "analyze" /\ last'.result = "throw")
           => verseCache' = verseCache
        /\ verseCache' # verseCache
           => /\ last'.op = "analyze" /\ last'.phase = "settle"
              /\ last'.result = "return" /\ last'.resp.status = "ok"
              /\ DOMAIN verseCache' = DOMAIN verseCache \cup {cacheKey(last'.vref, last'.kind)}
              /\ verseCache'[cacheKey(last'.vref, last'.kind)] = last'.resp.text
              /\ \A k \in DOMAIN verseCache :
                    k # cacheKey(last'.vref, last'.kind) => verseCache'[k] = verseCache[k]
      ]_vars

C6_Witness ==
    /\ IsSettle /\ last.op = "analyze" /\ last.result = "throw"
    /\ last.resp.status = "error"
    /\ LastKey \notin DOMAIN verseCache

(***************************************************************************)
(* C7 as stated: the first chat turn of every mode creates a session for   *)
(* that mode (here with the credential set).  The flash mode is served by  *)
(* a one-shot safeGenerate call and never gets a session.                  *)
(***************************************************************************)
C7_EveryModeGetsSession ==
    (apiKey /\ IsCall /\ last.op = "chat") => chatInstances[last.mode] # 0

(***************************************************************************)
(* C7 amended.  For every mode other than gemini-2.5-flash, a chat turn    *)
(* that obtains the client is sent through the session registered for its  *)
(* mode, which is created by the first such turn and is the same session   *)
(* on every later turn; the flash mode never has a session; distinct modes *)
(* have distinct sessions and exactly one is created per mode that has     *)
(* one; a registered session is never replaced or removed; a turn leaves   *)
(* the sessions of the other modes untouched and no other operation        *)
(* touches the session map.                                                *)
(***************************************************************************)
C7_OneSessionPerMode ==
    [][ /\ \A m \in ChatModes :
              chatInstances[m] # 0 => chatInstances'[m] = chatInstances[m]
        /\ \A m \in ChatModes :
              chatInstances'[m] # chatInstances[m]
              => (last'.op = "chat" /\ last'.phase = "call" /\ last'.mode = m)
        /\ chatInstances'[FlashMode] = 0
        /\ chatsCreated' = Cardinality({m \in ChatModes : chatInstances'[m] # 0})
        /\ \A m1, m2 \in SessionModes :
              (m1 # m2 /\ chatInstances'[m1] # 0) => chatInstances'[m1] # chatInstances'[m2]
        /\ (last'.op = "chat" /\ last'.phase = "call" /\ last'.mode # FlashMode /\ ai')
           => /\ chatInstances'[last'.mode] # 0
              /\ last'.chat = chatInstances'[last'.mode]
              /\ last'.net /\ last'.result = "pending"
              /\ last'.fresh = (chatInstances[last'.mode] = 0)
      ]_vars

C7_Witness ==
    /\ IsCall /\ last.op = "chat" /\ last.mode # FlashMode
    /\ ~last.fresh /\ last.chat = 1 /\ chatInstances[last.mode] = 1
    /\ chatsCreated = 2

(***************************************************************************)
(* C8.  searchBibleByKeyword never throws: a call that is refused (cooling *)
(* down, no credential) and a call whose request fails (rate limit or any  *)
(* other upstream error) return the empty string; a rate-limit failure of  *)
(* its request starts the cooldown.                                        *)
(***************************************************************************)
C8_KeywordSearchNeverRaises ==
    last.op = "keyword"
    => /\ last.result \in {"pending", "return"}
       /\ (Refused \/ (IsSettle /\ last.resp.status = "error"))
          => (last.result = "return" /\ last.text = <<>>)
       /\ (IsSettle /\ RateLimited(last.resp)) => globalCooldownUntil = now + 60000

C8_Witness ==
    /\ last.op = "keyword" /\ IsSettle /\ RateLimited(last.resp)
    /\ last.result = "return" /\ last.text = <<>>

(***************************************************************************)
(* C9 as stated: without the credential every operation fails with the     *)
(* configuration error, surfaced to the caller as such.  The chat returns  *)
(* the message as an ordinary reply and the keyword search returns the     *)
(* empty string.                                                           *)
(***************************************************************************)
C9_EveryCallerGetsApiKeyError ==
    (~apiKey /\ IsCall) => (last.result = "throw" /\ last.name = "ApiKeyError")

(***************************************************************************)
(* C9 amended.  Without the credential every operation that needs the      *)
(* client fails inside the gateway with ApiKeyError before any network     *)
(* call: no cooldown starts, no session is registered, the cache stays     *)
(* empty and the client handle stays uninitialised.  getVerseAnalysis      *)
(* throws the ApiKeyError to its caller; sendMessageToBot returns its      *)
(* message "API key missing." as the reply text; searchBibleByKeyword      *)
(* returns the empty string.                                               *)
(***************************************************************************)
C9_MissingKeyFailsBeforeNetwork ==
    ~apiKey
    => /\ ~ai
       /\ inflight = EmptyBag
       /\ globalCooldownUntil = 0
       /\ \A m \in ChatModes : chatInstances[m] = 0
       /\ DOMAIN verseCache = {}
       /\ IsCall
          => /\ ~last.net
             /\ last.op = "analyze"
                => /\ last.result = "throw" /\ last.name = "ApiKeyError"
                   /\ last.text = <<"API key missing.">>
             /\ last.op = "chat"
                => last.result = "return" /\ last.text = <<"API key missing.">>
             /\ last.op = "keyword"
                => last.result = "return" /\ last.text = <<>>

C9_Witness ==
    /\ ~apiKey /\ IsCall /\ last.op = "analyze"
    /\ last.result = "throw" /\ last.name = "ApiKeyError"

(***************************************************************************)
(* C10 as stated: a request that fails with an upstream error other than a *)
(* rate limit leaves cooldownUntil, the cache and the session map as they  *)
(* were before the request, and its caller receives the upstream error     *)
(* with its message.  The session created by the failed first turn of a    *)
(* session mode stays registered, and the keyword search returns the empty *)
(* string whatever the message was.                                        *)
(***************************************************************************)
C10_UpstreamFailureChangesNothing ==
    [][ (last'.phase = "settle" /\ UpstreamFailure(last'.resp))
        => /\ UNCHANGED <<globalCooldownUntil, verseCache, chatInstances>>
           /\ ~last'.fresh
           /\ last'.resp.text # <<>> => last'.text = last'.resp.text
      ]_vars

(***************************************************************************)
(* C10 amended.  The continuation of a request that failed with an         *)
(* upstream error other than a rate limit leaves cooldownUntil, the cache  *)
(* and the session map unchanged; the session map differs from the one     *)
(* before the request at most by the session that the request, as first    *)
(* turn of its mode, registered, and that session stays registered.        *)
(* getVerseAnalysis throws the upstream error with its message,            *)
(* sendMessageToBot returns the message as the reply text ("AI error" when *)
(* the message is empty), searchBibleByKeyword returns the empty string.   *)
(***************************************************************************)
C10_UpstreamFailureKeepsState ==
    [][ (last'.phase = "settle" /\ UpstreamFailure(last'.resp))
        => /\ UNCHANGED <<globalCooldownUntil, verseCache, chatInstances>>
           /\ last'.fresh => chatInstances'[last'.mode] = last'.chat
           /\ last'.op = "analyze"
              => (last'.result = "throw" /\ last'.text = last'.resp.text)
           /\ last'.op = "chat"
              => /\ last'.result = "return"
                 /\ last'.text = IF last'.resp.text = <<>> THEN <<"AI error">>
                                 ELSE last'.resp.text
           /\ last'.op = "keyword"
              => (last'.result = "return" /\ last'.text = <<>>)
      ]_vars

C10_Witness ==
    /\ IsSettle /\ UpstreamFailure(last.resp)
    /\ last.op = "chat" /\ last.fresh /\ chatInstances[last.mode] = last.chat
    /\ globalCooldownUntil > 0 /\ DOMAIN verseCache # {}

(***************************************************************************)
(* Scripture service (services/bibleService, kept in                       *)
(* src/components/VerseTools.tsx lines 506-745) and the reference parser   *)
(* of src/App.tsx.  A string is the tuple of its characters, so that       *)
(* trimming, lower-casing, whitespace removal, prefix tests and the        *)
(* reference pattern are computed character by character.                  *)
(***************************************************************************)
UpperChars == <<"A", "B", "C", "D", "E", "F", "G", "H", "I", "J", "K", "L", "M", "N", "O", "P", "Q", "R", "S", "T", "U", "V", "W", "X", "Y", "Z">>
LowerChars == <<"a", "b", "c", "d", "e", "f", "g", "h", "i", "j", "k", "l", "m", "n", "o", "p", "q", "r", "s", "t", "u", "v", "w", "x", "y", "z">>
DigitChars == <<"0", "1", "2", "3", "4", "5", "6", "7", "8", "9">>
SpaceChars == {" ", "\n", "\t"}

Range(f) == {f[i] : i \in DOMAIN f}
IsSpace(c) == c \in SpaceChars

\* String.prototype.toLowerCase, one character
LowerChar(c) ==
    IF c \in Range(UpperChars)
    THEN LowerChars[CHOOSE i \in DOMAIN UpperChars : UpperChars[i] = c]
    ELSE c

\* String.prototype.toLowerCase
ToLowerCase(s) == [i \in DOMAIN s |-> LowerChar(s[i])]

\* String.prototype.toUpperCase
ToUpperCase(s) ==
    [i \in DOMAIN s |->
        IF s[i] \in Range(LowerChars)
        THEN UpperChars[CHOOSE k \in DOMAIN LowerChars : LowerChars[k] = s[i]]
        ELSE s[i]]

\* String.prototype.trim
Trim(s) ==
    LET inked == {i \in DOMAIN s : ~IsSpace(s[i])} IN
    IF inked = {} THEN << >>
    ELSE SubSeq(s, CHOOSE i \in inked : \A j \in inked : i <= j,
                   CHOOSE i \in inked : \A j \in inked : j <= i)

\* s.replace(/\s/g, '')
RemoveWhitespace(s) == SelectSeq(s, LAMBDA c : ~IsSpace(c))

\* String.prototype.startsWith
StartsWith(s, prefix) ==
    /\ Len(prefix) <= Len(s)
    /\ SubSeq(s, 1, Len(prefix)) = prefix

\* Array.prototype.find: the first element among those at the positions
\* `hits` (the positions that satisfy the test), else `none`
Find(seq, hits, none) ==
    IF hits = {} THEN none
    ELSE seq[CHOOSE i \in hits : \A j \in hits : i <= j]

(***************************************************************************)
(* Book tables.  The model keeps ten of the sixty-six books, in canonical  *)
(* order: books whose names share prefixes, numbered books, the book with  *)
(* an alias and abbreviations that are no prefix of the name.              *)
(***************************************************************************)
\* BIBLE_META: name and chapter count per book, in canonical order
BIBLE_META == <<
    [name |-> <<"J", "o", "s", "h", "u", "a">>, chapters |-> 24],
    [name |-> <<"J", "u", "d", "g", "e", "s">>, chapters |-> 21],
    [name |-> <<"1", " ", "S", "a", "m", "u", "e", "l">>, chapters |-> 31],
    [name |-> <<"J", "o", "b">>, chapters |-> 42],
    [name |-> <<"S", "o", "n", "g", " ", "o", "f", " ", "S", "o", "l", "o", "m", "o", "n">>, chapters |-> 8],
    [name |-> <<"J", "o", "h", "n">>, chapters |-> 21],
    [name |-> <<"R", "o", "m", "a", "n", "s">>, chapters |-> 16],
    [name |-> <<"P", "h", "i", "l", "e", "m", "o", "n">>, chapters |-> 1],
    [name |-> <<"1", " ", "J", "o", "h", "n">>, chapters |-> 5],
    [name |-> <<"J", "u", "d", "e">>, chapters |-> 1] >>

\* the value `null` of BookMetadata | null
NullMeta == [name |-> << >>, chapters |-> 0]

\* bookNameToAbbreviation: <<name, abbreviation>> in the order of the literal
bookNameToAbbreviation == <<
    <<<<"J", "o", "s", "h", "u", "a">>, <<"J", "o", "s", "h">>>>,
    <<<<"J", "u", "d", "g", "e", "s">>, <<"J", "u", "d", "g">>>>,
    <<<<"1", " ", "S", "a", "m", "u", "e", "l">>, <<"1", " ", "S", "a", "m">>>>,
    <<<<"J", "o", "b">>, <<"J", "o", "b">>>>,
    <<<<"S", "o", "n", "g", " ", "o", "f", " ", "S", "o", "l", "o", "m", "o", "n">>, <<"S", "o", "n", "g">>>>,
    <<<<"J", "o", "h", "n">>, <<"J", "o", "h", "n">>>>,
    <<<<"R", "o", "m", "a", "n", "s">>, <<"R", "o", "m">>>>,
    <<<<"P", "h", "i", "l", "e", "m", "o", "n">>, <<"P", "h", "l", "m">>>>,
    <<<<"1", " ", "J", "o", "h", "n">>, <<"1", " ", "J", "o", "h", "n">>>>,
    <<<<"J", "u", "d", "e">>, <<"J", "u", "d", "e">>>> >>

AbbreviationAssignments_KeepsCase ==
    [k \in 1..(2 * Len(bookNameToAbbreviation)) |->
        IF k % 2 = 1
        THEN <<RemoveWhitespace(bookNameToAbbreviation[(k + 1) \div 2][2]),
               bookNameToAbbreviation[(k + 1) \div 2][1]>>
        ELSE <<bookNameToAbbreviation[(k + 1) \div 2][2],
               bookNameToAbbreviation[(k + 1) \div 2][1]>>]

\* the assignments `acc[key] = name` made by the reduce that builds
\* abbreviationToBookName, in the order they are made
AbbreviationAssignments ==
    LET Pair(k) ==
            LET name == bookNameToAbbreviation[(k + 1) \div 2][1]
                abbr == bookNameToAbbreviation[(k + 1) \div 2][2] IN
            IF k % 2 = 1
            THEN <<RemoveWhitespace(ToLowerCase(abbr)), name>>
            ELSE <<ToLowerCase(abbr), name>> IN
    [k \in 1..(2 * Len(bookNameToAbbreviation)) |-> Pair(k)]

\* abbreviationToBookName[key]: the name assigned last under the key;
\* the empty string stands for undefined (both are falsy)
abbreviationToBookName(key) ==
    LET hits == {k \in DOMAIN AbbreviationAssignments : AbbreviationAssignments[k][1] = key} IN
    IF hits = {} THEN << >>
    ELSE AbbreviationAssignments[CHOOSE k \in hits : \A j \in hits : j <= k][2]

SongOfSongs == <<"s", "o", "n", "g", " ", "o", "f", " ", "s", "o", "n", "g", "s">>
SongOfSolomon == <<"S", "o", "n", "g", " ", "o", "f", " ", "S", "o", "l", "o", "m", "o", "n">>

\* BIBLE_META.find(b => b.name === name) || null
MetaNamed(name) ==
    Find(BIBLE_META, {i \in DOMAIN BIBLE_META : BIBLE_META[i].name = name}, NullMeta)

\* rule 1: case-insensitive match of the full name
FullNameMatch(cleanedQuery) ==
    Find(BIBLE_META,
         {i \in DOMAIN BIBLE_META : ToLowerCase(BIBLE_META[i].name) = cleanedQuery},
         NullMeta)

\* rule 2: the abbreviation table, query without whitespace first
AbbreviationMatch(cleanedQuery) ==
    LET noSpace == abbreviationToBookName(RemoveWhitespace(cleanedQuery))
        bookNameFromAbbr == IF noSpace # << >> THEN noSpace
                            ELSE abbreviationToBookName(cleanedQuery) IN
    IF bookNameFromAbbr # << >> THEN MetaNamed(bookNameFromAbbr) ELSE NullMeta

\* rule 3: the alias of Song of Solomon
AliasMatch(cleanedQuery) ==
    IF cleanedQuery = SongOfSongs THEN MetaNamed(SongOfSolomon) ELSE NullMeta

PrefixMatch_LastBook(cleanedQuery) ==
    LET hits == {i \in DOMAIN BIBLE_META :
                    StartsWith(ToLowerCase(BIBLE_META[i].name), cleanedQuery)} IN
    IF hits = {} THEN NullMeta
    ELSE BIBLE_META[CHOOSE i \in hits : \A j \in hits : j <= i]

\* rule 4: the first book whose lower-cased name starts with the query
PrefixMatch(cleanedQuery) ==
    Find(BIBLE_META,
         {i \in DOMAIN BIBLE_META : StartsWith(ToLowerCase(BIBLE_META[i].name), cleanedQuery)},
         NullMeta)

\* findBookMetadata: the first rule that finds a book decides
findBookMetadata(query) ==
    LET cleanedQuery == ToLowerCase(Trim(query)) IN
    IF FullNameMatch(cleanedQuery) # NullMeta THEN FullNameMatch(cleanedQuery)
    ELSE IF AbbreviationMatch(cleanedQuery) # NullMeta THEN AbbreviationMatch(cleanedQuery)
    ELSE IF cleanedQuery = SongOfSongs THEN AliasMatch(cleanedQuery)
    ELSE PrefixMatch(cleanedQuery)

(***************************************************************************)
(* findBookMetadata applied to one query                                   *)
(***************************************************************************)
\* the gateway is not part of a scripture-service run
GatewayOff ==
    /\ now = 1
    /\ apiKey = FALSE
    /\ ai = FALSE
    /\ chatInstances = [m \in ChatModes |-> 0]
    /\ chatsCreated = 0
    /\ verseCache = << >>
    /\ globalCooldownUntil = 0
    /\ inflight = EmptyBag
    /\ analysed = [x \in AnalyzeInputs |-> NotAnalysed]
    /\ calls = 0
    /\ rateLimitedAt = -1
    /\ last = NoEvent

Returned(v) == [status |-> "returned", value |-> v]

\* a text as written, in lower, upper and mixed case (odd positions upper,
\* even positions lower) and with blanks around it
Spellings(s) ==
    {s, ToLowerCase(s), ToUpperCase(s),
     [i \in DOMAIN s |-> IF i % 2 = 1 THEN ToUpperCase(s)[i] ELSE ToLowerCase(s)[i]],
     <<" ">> \o s \o <<" ", " ">>}

\* queries: every book name and abbreviation in several spellings, the
\* abbreviations without their whitespace, the alias, every prefix of
\* every name, and queries that name no book
BookQueries ==
    UNION {Spellings(b.name) \cup {SubSeq(ToLowerCase(b.name), 1, n) : n \in 1..Len(b.name)} :
              b \in Range(BIBLE_META)}
    \cup UNION {Spellings(e[2]) \cup Spellings(RemoveWhitespace(e[2])) :
                    e \in Range(bookNameToAbbreviation)}
    \cup Spellings(SongOfSongs)
    \cup {<<"X", "y", "z">>, <<"n", "o", "t", " ", "a", " ", "r", "e", "f">>, <<"j", "o", " ", "h", "n">>, <<"1">>, <<"P", "s", "a", "l", "m", "s">>, << >>}

ResolveInit ==
    /\ GatewayOff
    /\ ViewsOff
    /\ svcCall \in {[fn |-> "findBookMetadata", arg |-> q] : q \in BookQueries}
    /\ svcRequests = << >>
    /\ svcResult = Pending

\* the call returns
FindBookMetadata ==
    /\ svcCall.fn = "findBookMetadata"
    /\ svcResult = Pending
    /\ svcResult' = Returned(findBookMetadata(svcCall.arg))
    /\ UNCHANGED <<svcCall, svcRequests, gatewayVars, viewVars, chatbot>>

SpecResolve == ResolveInit /\ [][FindBookMetadata]_vars

(***************************************************************************)
(* Vocabulary of the book-matcher properties, stated on the tables         *)
(***************************************************************************)
Resolved == svcCall.fn = "findBookMetadata" /\ svcResult.status = "returned"
CleanedArg == ToLowerCase(Trim(svcCall.arg))
BooksNamedExactly == {b \in Range(BIBLE_META) : ToLowerCase(b.name) = CleanedArg}
BooksAbbreviated ==
    {b \in Range(BIBLE_META) :
        \E k \in DOMAIN AbbreviationAssignments :
            /\ AbbreviationAssignments[k][1] \in {CleanedArg, RemoveWhitespace(CleanedArg)}
            /\ AbbreviationAssignments[k][2] = b.name}
BooksPrefixed ==
    {i \in DOMAIN BIBLE_META :
        /\ Len(CleanedArg) <= Len(BIBLE_META[i].name)
        /\ \A k \in 1..Len(CleanedArg) : LowerChar(BIBLE_META[i].name[k]) = CleanedArg[k]}

\* C14: the matcher applies its rules in a fixed order and the first rule that
\* matches decides: exact full name (any letter case), then the abbreviation
\* table, then the alias "Song of Songs", then the first book in table order
\* whose name starts with the query, and otherwise no book is found.
C14_RulesInFixedOrder ==
    Resolved =>
        IF BooksNamedExactly # {} THEN svcResult.value \in BooksNamedExactly
        ELSE IF BooksAbbreviated # {} THEN svcResult.value \in BooksAbbreviated
        ELSE IF CleanedArg = SongOfSongs THEN svcResult.value.name = SongOfSolomon
        ELSE IF BooksPrefixed # {}
             THEN \E i \in BooksPrefixed :
                     /\ \A j \in BooksPrefixed : i <= j
                     /\ svcResult.value = BIBLE_META[i]
        ELSE svcResult.value = NullMeta

\* a query that only the prefix rule matches, with several books to choose from
C14_Witness ==
    /\ Resolved
    /\ BooksNamedExactly = {} /\ BooksAbbreviated = {} /\ CleanedArg # SongOfSongs
    /\ Cardinality(BooksPrefixed) > 1
    /\ svcResult.value # NullMeta

\* C15: an abbreviation of the table, written with or without its whitespace
\* and in any letter case, resolves to the metadata of the book it abbreviates,
\* the same metadata the book's full name resolves to.
C15_AbbreviationSpellings ==
    Resolved =>
        \A e \in Range(bookNameToAbbreviation) :
            ToLowerCase(svcCall.arg) \in
                {ToLowerCase(e[1]), ToLowerCase(e[2]), RemoveWhitespace(ToLowerCase(e[2]))}
            => /\ svcResult.value.name = e[1]
               /\ svcResult.value \in Range(BIBLE_META)

\* an abbreviation that is no prefix of its book, written without its
\* whitespace or in another letter case than the table's
C15_Witness ==
    /\ Resolved
    /\ \E e \in Range(bookNameToAbbreviation) :
          /\ svcCall.arg # e[2]
          /\ ToLowerCase(svcCall.arg) \in {ToLowerCase(e[2]), RemoveWhitespace(ToLowerCase(e[2]))}
          /\ ~StartsWith(ToLowerCase(e[1]), ToLowerCase(svcCall.arg))
          /\ svcResult.value.name = e[1]

(***************************************************************************)
(* parseReferencesFromString (src/App.tsx 203-227)                         *)
(***************************************************************************)
\* the value `undefined` of endVerse; parseInt of digits is never negative
Undefined == -1

\* position after the longest run of characters of the class that starts at i
RECURSIVE RunEnd(_, _, _)
RunEnd(s, i, class) ==
    IF i <= Len(s) /\ s[i] \in class THEN RunEnd(s, i + 1, class) ELSE i

\* the character classes \d and [a-zA-Z\s]
Digits == Range(DigitChars)
LettersAndSpaces == Range(UpperChars) \cup Range(LowerChars) \cup SpaceChars

\* refString.split(/[,;]/g): the pieces between the separators, empty ones kept
RECURSIVE Split(_)
Split(s) ==
    LET seps == {i \in DOMAIN s : s[i] \in {",", ";"}} IN
    IF seps = {} THEN <<s>>
    ELSE LET i == CHOOSE k \in seps : \A j \in seps : k <= j IN
         <<SubSeq(s, 1, i - 1)>> \o Split(SubSeq(s, i + 1, Len(s)))

\* parseInt(digits, 10) of a non-empty run of decimal digits
RECURSIVE ParseInt(_)
ParseInt(ds) ==
    IF ds = << >> THEN 0
    ELSE 10 * ParseInt(SubSeq(ds, 1, Len(ds) - 1))
         + (CHOOSE k \in DOMAIN DigitChars : DigitChars[k] = ds[Len(ds)]) - 1

NoMatch == [matched |-> FALSE]

MatchAt_NoRange(s, p) ==
    LET q  == IF s[p] \in Digits THEN p + 1 ELSE p
        ls == RunEnd(s, q, LettersAndSpaces)
        d  == RunEnd(s, ls, Digits)
        e  == RunEnd(s, d + 1, Digits) IN
    IF /\ q <= ls - 2
       /\ IsSpace(s[ls - 1])
       /\ d > ls
       /\ d <= Len(s) /\ s[d] = ":"
       /\ e > d + 1
    THEN [matched |-> TRUE,
          book    |-> SubSeq(s, p, ls - 2),
          chapter |-> SubSeq(s, ls, d - 1),
          verse   |-> SubSeq(s, d + 1, e - 1),
          endVerse |-> << >>]
    ELSE NoMatch

\* The groups of referenceRegex matched at position p, or NoMatch.
\*   /((\d\s*)?[a-zA-Z\s]+)\s+(\d+):(\d+)(?:-(\d+))?/i
\* The quantifiers are greedy and give back one character at a time: the
\* letters-and-whitespace run [a-zA-Z\s]+ first takes everything up to the
\* first other character (position ls) and gives back the one whitespace
\* that \s+ needs, so the chapter digits start at ls; (\d\s*)? gives back
\* its whitespace when the run would otherwise be empty.  Each \d+ takes its
\* whole run of digits.
MatchAt(s, p) ==
    LET q  == IF s[p] \in Digits THEN p + 1 ELSE p
        ls == RunEnd(s, q, LettersAndSpaces)
        d  == RunEnd(s, ls, Digits)
        e  == RunEnd(s, d + 1, Digits)
        f  == RunEnd(s, e + 1, Digits)
        ranged == e <= Len(s) /\ s[e] = "-" /\ f > e + 1 IN
    IF /\ q <= ls - 2
       /\ IsSpace(s[ls - 1])
       /\ d > ls
       /\ d <= Len(s) /\ s[d] = ":"
       /\ e > d + 1
    THEN [matched |-> TRUE,
          book    |-> SubSeq(s, p, ls - 2),
          chapter |-> SubSeq(s, ls, d - 1),
          verse   |-> SubSeq(s, d + 1, e - 1),
          endVerse |-> IF ranged THEN SubSeq(s, e + 1, f - 1) ELSE << >>]
    ELSE NoMatch

\* trimmedPart.match(referenceRegex): the match at the leftmost position that has one
ReferenceMatch(s) ==
    LET starts == {p \in DOMAIN s : MatchAt(s, p).matched} IN
    IF starts = {} THEN NoMatch
    ELSE MatchAt(s, CHOOSE p \in starts : \A r \in starts : p <= r)

ParsedReference(b, c, v, w) ==
    [book |-> b, chapter |-> c, startVerse |-> v, endVerse |-> w]

ReferencesOfPart_KeepsQuery(part) ==
    LET trimmedPart == Trim(part)
        match == ReferenceMatch(trimmedPart) IN
    IF trimmedPart = << >> \/ ~match.matched THEN << >>
    ELSE IF findBookMetadata(Trim(match.book)) = NullMeta THEN << >>
    ELSE <<ParsedReference(Trim(match.book),
                           ParseInt(match.chapter),
                           ParseInt(match.verse),
                           IF match.endVerse # << >>
                           THEN ParseInt(match.endVerse) ELSE Undefined)>>

\* one turn of the loop: the references the part adds to parsedReferences
ReferencesOfPart(part) ==
    LET trimmedPart == Trim(part)
        match == ReferenceMatch(trimmedPart) IN
    IF trimmedPart = << >> THEN << >>
    ELSE IF ~match.matched THEN << >>
    ELSE LET bookQuery == Trim(match.book)
             bookMeta == findBookMetadata(bookQuery) IN
         IF bookMeta = NullMeta THEN << >>
         ELSE <<ParsedReference(bookMeta.name,
                                ParseInt(match.chapter),
                                ParseInt(match.verse),
                                IF match.endVerse # << >>
                                THEN ParseInt(match.endVerse) ELSE Undefined)>>

RECURSIVE ParseParts_FirstOnly(_)
ParseParts_FirstOnly(parts) ==
    IF parts = << >> THEN << >>
    ELSE LET here == ReferencesOfPart(Head(parts)) IN
         IF here # << >> THEN here ELSE ParseParts_FirstOnly(Tail(parts))

\* the loop over the parts, in order
RECURSIVE ParseParts(_)
ParseParts(parts) ==
    IF parts = << >> THEN << >>
    ELSE ReferencesOfPart(Head(parts)) \o ParseParts(Tail(parts))

parseReferencesFromString(refString) == ParseParts(Split(refString))

(***************************************************************************)
(* parseReferencesFromString applied to one search text.  The text is      *)
(* put together from segments whose reading is written down with them:     *)
(* whether the segment fits the reference pattern, the book its token      *)
(* names (the empty string when it names none) and its numbers.            *)
(***************************************************************************)
MaxSegments == 3

\* String(n) of a template literal, n >= 0
RECURSIVE FormatInt(_)
FormatInt(n) ==
    IF n < 10 THEN <<DigitChars[n + 1]>>
    ELSE FormatInt(n \div 10) \o <<DigitChars[(n % 10) + 1]>>

BookTokens == {
    [token |-> <<"J", "o", "h", "n">>, fits |-> TRUE, book |-> <<"J", "o", "h", "n">>],
    [token |-> <<"j", "O", "H", "N">>, fits |-> TRUE, book |-> <<"J", "o", "h", "n">>],
    [token |-> <<"1", " ", "S", "a", "m">>, fits |-> TRUE, book |-> <<"1", " ", "S", "a", "m", "u", "e", "l">>],
    [token |-> <<"1", "s", "a", "m">>, fits |-> TRUE, book |-> <<"1", " ", "S", "a", "m", "u", "e", "l">>],
    [token |-> <<"S", "o", "n", "g", " ", "o", "f", " ", "S", "o", "n", "g", "s">>, fits |-> TRUE, book |-> <<"S", "o", "n", "g", " ", "o", "f", " ", "S", "o", "l", "o", "m", "o", "n">>],
    [token |-> <<"J", "o">>, fits |-> TRUE, book |-> <<"J", "o", "s", "h", "u", "a">>],
    [token |-> <<"p", "h", "l", "m">>, fits |-> TRUE, book |-> <<"P", "h", "i", "l", "e", "m", "o", "n">>],
    [token |-> <<"X", "y", "z">>, fits |-> TRUE, book |-> <<>>],
    [token |-> <<"1">>, fits |-> FALSE, book |-> <<"1", " ", "S", "a", "m", "u", "e", "l">>] }

\* the segment "Book C:V" or "Book C:V-W"
FormedSegment(t, c, v, w) ==
    [text |-> t.token \o <<" ">> \o FormatInt(c) \o <<":">> \o FormatInt(v)
              \o (IF w = Undefined THEN << >> ELSE <<"-">> \o FormatInt(w)),
     formed |-> TRUE, token |-> t.token, fits |-> t.fits, book |-> t.book,
     chapter |-> c, verse |-> v, endVerse |-> w]

FormedSegments ==
    {FormedSegment(t, c, v, w) :
        t \in BookTokens, c \in {0, 3, 21}, v \in {0, 5, 16}, w \in {Undefined, 0, 2, 18}}

\* segments of other shapes
FreeSegments == {
    [text |-> <<"J", "o", "h", "n", " ", "3", ":", "1", "6">>, formed |-> FALSE, token |-> << >>, fits |-> TRUE, book |-> <<"J", "o", "h", "n">>,
     chapter |-> 3, verse |-> 16, endVerse |-> Undefined],
    [text |-> <<" ", "R", "o", "m", "a", "n", "s", " ", "8", ":", "2", "8">>, formed |-> FALSE, token |-> << >>, fits |-> TRUE, book |-> <<"R", "o", "m", "a", "n", "s">>,
     chapter |-> 8, verse |-> 28, endVerse |-> Undefined],
    [text |-> <<"n", "o", "t", " ", "a", " ", "r", "e", "f">>, formed |-> FALSE, token |-> << >>, fits |-> FALSE, book |-> <<>>,
     chapter |-> 0, verse |-> 0, endVerse |-> Undefined],
    [text |-> <<>>, formed |-> FALSE, token |-> << >>, fits |-> FALSE, book |-> <<>>,
     chapter |-> 0, verse |-> 0, endVerse |-> Undefined],
    [text |-> <<"s", "e", "e", " ", "J", "o", "h", "n", " ", "3", ":", "1", "6">>, formed |-> FALSE, token |-> << >>, fits |-> TRUE, book |-> <<>>,
     chapter |-> 3, verse |-> 16, endVerse |-> Undefined],
    [text |-> <<" ", "1", " ", "j", "o", "h", "n", " ", "0", "3", ":", "0", "1", "6", "-", "1", "8", " ", "(", "K", "J", "V", ")", " ">>, formed |-> FALSE, token |-> << >>, fits |-> TRUE, book |-> <<"1", " ", "J", "o", "h", "n">>,
     chapter |-> 3, verse |-> 16, endVerse |-> 18],
    [text |-> <<"J", "o", "h", "n", "3", ":", "1", "6">>, formed |-> FALSE, token |-> << >>, fits |-> FALSE, book |-> <<>>,
     chapter |-> 0, verse |-> 0, endVerse |-> Undefined],
    [text |-> <<"1", " ", " ", "2", ":", "3">>, formed |-> FALSE, token |-> << >>, fits |-> TRUE, book |-> <<"1", " ", "S", "a", "m", "u", "e", "l">>,
     chapter |-> 2, verse |-> 3, endVerse |-> Undefined] }

\* the segments joined by commas and semicolons in turn
RECURSIVE JoinSegments(_, _, _)
JoinSegments(segs, sep, other) ==
    IF Len(segs) = 1 THEN segs[1].text
    ELSE segs[1].text \o <<sep>> \o JoinSegments(Tail(segs), other, sep)

SearchTexts ==
    {<<s>> : s \in FormedSegments}
    \cup UNION {[1..n -> FreeSegments] : n \in 1..MaxSegments}

ParseInit ==
    /\ GatewayOff
    /\ ViewsOff
    /\ \E segs \in SearchTexts, sep \in {",", ";"} :
          svcCall = [fn |-> "parseReferencesFromString",
                     arg |-> JoinSegments(segs, sep, IF sep = "," THEN ";" ELSE ","),
                     segments |-> segs]
    /\ svcRequests = << >>
    /\ svcResult = Pending

\* the call returns
ParseReferencesFromString ==
    /\ svcCall.fn = "parseReferencesFromString"
    /\ svcResult = Pending
    /\ svcResult' = Returned(parseReferencesFromString(svcCall.arg))
    /\ UNCHANGED <<svcCall, svcRequests, gatewayVars, viewVars, chatbot>>

SpecParse == ParseInit /\ [][ParseReferencesFromString]_vars

(***************************************************************************)
(* Vocabulary of the parser properties                                     *)
(***************************************************************************)
Parsed == svcCall.fn = "parseReferencesFromString" /\ svcResult.status = "returned"
CanonicalNames == {b.name : b \in Range(BIBLE_META)}
HasLetter(s) == \E i \in DOMAIN s : s[i] \in Range(UpperChars) \cup Range(LowerChars)

\* what a segment should add to the result, by the reading written with it
ReadingOf(seg) ==
    IF seg.fits /\ seg.book # << >>
    THEN <<ParsedReference(seg.book, seg.chapter, seg.verse, seg.endVerse)>>
    ELSE << >>

RECURSIVE ReadingsOf(_)
ReadingsOf(segs) ==
    IF segs = << >> THEN << >> ELSE ReadingOf(Head(segs)) \o ReadingsOf(Tail(segs))

\* the call was given the single segment "Book C:V" or "Book C:V-W"
OneFormedSegment == Len(svcCall.segments) = 1 /\ svcCall.segments[1].formed

\* C11: the parser returns, for the segments between commas and semicolons and
\* in their order, one reference for every segment that fits the pattern and
\* names a book and nothing for any other segment; duplicates are kept.
C11_ReferencesInSegmentOrder ==
    Parsed => svcResult.value = ReadingsOf(svcCall.segments)

\* three segments, the same reference twice around a segment that adds nothing
C11_Witness ==
    /\ Parsed
    /\ Len(svcCall.segments) = 3
    /\ svcCall.segments[1] = svcCall.segments[3]
    /\ ReadingOf(svcCall.segments[1]) # << >>
    /\ ReadingOf(svcCall.segments[2]) = << >>
    /\ Len(svcResult.value) = 2

\* C12 as claimed: a segment "Book C:V" or "Book C:V-W" whose book token resolves
\* gives exactly one reference to that book with chapter C, first verse V and
\* last verse W, absent in the first form.
C12_ResolvableTokenGivesOneReference ==
    (Parsed /\ OneFormedSegment /\ svcCall.segments[1].book # << >>) =>
        LET seg == svcCall.segments[1] IN
        svcResult.value = <<ParsedReference(seg.book, seg.chapter, seg.verse, seg.endVerse)>>

\* C12 amended: the same for every such segment whose book token contains a
\* letter; the book of the reference is the canonical name the token resolves to.
C12_LetteredTokenGivesOneReference ==
    (Parsed /\ OneFormedSegment /\ svcCall.segments[1].book # << >>
            /\ HasLetter(svcCall.segments[1].token)) =>
        LET seg == svcCall.segments[1] IN
        svcResult.value = <<ParsedReference(seg.book, seg.chapter, seg.verse, seg.endVerse)>>

\* an abbreviation with a verse range
C12_Witness ==
    /\ Parsed /\ OneFormedSegment
    /\ svcCall.segments[1].token \notin CanonicalNames
    /\ HasLetter(svcCall.segments[1].token)
    /\ svcCall.segments[1].endVerse # Undefined
    /\ Len(svcResult.value) = 1
    /\ svcResult.value[1].book \in CanonicalNames
    /\ svcResult.value[1].endVerse = svcCall.segments[1].endVerse

\* C13 as claimed: every reference the parser emits has a canonical book name,
\* a positive chapter, a positive first verse and, when present, a positive
\* last verse that is not below the first.
C13_EmittedReferencesAreWellFormed ==
    Parsed =>
        \A i \in DOMAIN svcResult.value :
            LET ref == svcResult.value[i] IN
            /\ ref.book \in CanonicalNames
            /\ ref.chapter \in Nat \ {0}
            /\ ref.startVerse \in Nat \ {0}
            /\ ref.endVerse # Undefined =>
                   (ref.endVerse \in Nat \ {0} /\ ref.endVerse >= ref.startVerse)

\* C13 amended: every reference the parser emits has a canonical book name and
\* natural numbers (zero included) for chapter, first verse and, when
\* present, last verse; the last verse may be below the first.
C13_EmittedReferencesAreNamedAndNatural ==
    Parsed =>
        \A i \in DOMAIN svcResult.value :
            LET ref == svcResult.value[i] IN
            /\ ref.book \in CanonicalNames
            /\ ref.chapter \in Nat
            /\ ref.startVerse \in Nat
            /\ ref.endVerse # Undefined => ref.endVerse \in Nat

\* a reference with chapter zero and a last verse below the first
C13_Witness ==
    /\ Parsed
    /\ \E i \in DOMAIN svcResult.value :
          /\ svcResult.value[i].chapter = 0
          /\ svcResult.value[i].endVerse # Undefined
          /\ svcResult.value[i].endVerse < svcResult.value[i].startVerse

(***************************************************************************)
(* Verse retrieval: fetchChapter and fetchVersesByReferences               *)
(* (src/components/VerseTools.tsx 603-695) with the Telugu lookup          *)
(* (569-588).  Every translation request is answered by the remote         *)
(* service at some later step, in any order.                               *)
(***************************************************************************)
MaxVerses == 3
MaxRefs == 2

\* Local Telugu corpus, typedTeluguBibleData.Book[b].Chapter[c].Verse[v].Verse:
\* the ten books of the table with two chapters of two verses each; the
\* second verse of every second chapter has an empty text
teluguBibleData ==
    [Book |-> [b \in 1..Len(BIBLE_META) |->
        [Chapter |-> [c \in 1..2 |->
            [Verse |-> [v \in 1..2 |->
                [Verse |-> IF c = 2 /\ v = 2 THEN << >>
                           ELSE <<"t">> \o FormatInt(b) \o <<".">> \o FormatInt(c)
                                \o <<".">> \o FormatInt(v)]]]]]]]

\* the value `undefined` of string | undefined
UndefinedText == [defined |-> FALSE, text |-> << >>]

\* bookNameToIndexMap.get(book): index from zero, -1 stands for undefined
bookNameToIndexMap(book) ==
    IF \E i \in DOMAIN BIBLE_META : BIBLE_META[i].name = book
    THEN (CHOOSE i \in DOMAIN BIBLE_META : BIBLE_META[i].name = book) - 1
    ELSE -1

\* variant: a verse that the chapter lacks is answered with its first verse
getTeluguVerse_FirstVerseWhenMissing(book, chapter, verse) ==
    LET bookIndex == bookNameToIndexMap(book)
        books == teluguBibleData.Book IN
    IF bookIndex = -1 THEN UndefinedText
    ELSE IF bookIndex + 1 \notin DOMAIN books THEN UndefinedText
    ELSE IF chapter \notin DOMAIN books[bookIndex + 1].Chapter THEN UndefinedText
    ELSE LET verses == books[bookIndex + 1].Chapter[chapter].Verse IN
         [defined |-> TRUE,
          text |-> verses[IF verse \in DOMAIN verses THEN verse ELSE 1].Verse]

\* getTeluguVerse: optional chaining yields undefined at the first missing level
getTeluguVerse(book, chapter, verse) ==
    LET bookIndex == bookNameToIndexMap(book)
        chapterIndex == chapter - 1
        verseIndex == verse - 1
        books == teluguBibleData.Book IN
    IF bookIndex = -1 THEN UndefinedText
    ELSE IF bookIndex + 1 \notin DOMAIN books THEN UndefinedText
    ELSE IF chapterIndex + 1 \notin DOMAIN books[bookIndex + 1].Chapter THEN UndefinedText
    ELSE IF verseIndex + 1 \notin DOMAIN books[bookIndex + 1].Chapter[chapterIndex + 1].Verse
         THEN UndefinedText
    ELSE [defined |-> TRUE,
          text |-> books[bookIndex + 1].Chapter[chapterIndex + 1].Verse[verseIndex + 1].Verse]

\* text.replace(/\n/g, ' ').trim()
CleanText(text) == Trim([i \in DOMAIN text |-> IF text[i] = "\n" THEN " " ELSE text[i]])

\* the text object of a merged verse; BSI_TELUGU only for a truthy Telugu text
VerseTexts(kjvText, webText, teluguVerse) ==
    IF teluguVerse.defined /\ teluguVerse.text # << >>
    THEN [KJV |-> kjvText, ESV |-> webText, NIV |-> webText, BSI_TELUGU |-> teluguVerse.text]
    ELSE [KJV |-> kjvText, ESV |-> webText, NIV |-> webText]

\* webData.verses.find(v => v.verse === kjvVerse.verse), << >> for undefined
WebVerseFor(webVerses, kjvVerse) ==
    LET hits == {i \in DOMAIN webVerses : webVerses[i].verse = kjvVerse.verse} IN
    IF hits = {} THEN << >>
    ELSE <<webVerses[CHOOSE i \in hits : \A j \in hits : i <= j]>>

MergedTexts_NoFallback(book, chapter, kjvVerse, webVerses) ==
    LET webVerse == WebVerseFor(webVerses, kjvVerse)
        kjvText == CleanText(kjvVerse.text)
        webText == IF webVerse # << >> THEN CleanText(webVerse[1].text) ELSE << >> IN
    VerseTexts(kjvText, webText, getTeluguVerse(book, chapter, kjvVerse.verse))

\* the texts of one merged verse (620-635, 669-687)
MergedTexts(book, chapter, kjvVerse, webVerses) ==
    LET webVerse == WebVerseFor(webVerses, kjvVerse)
        teluguVerse == getTeluguVerse(book, chapter, kjvVerse.verse)
        kjvText == CleanText(kjvVerse.text)
        webText == IF webVerse # << >> THEN CleanText(webVerse[1].text) ELSE kjvText IN
    VerseTexts(kjvText, webText, teluguVerse)

\* kjvData.verses.map(...) of fetchChapter: Verse[]
MergeChapter(book, chapter, kjvVerses, webVerses) ==
    [i \in DOMAIN kjvVerses |->
        [verse |-> kjvVerses[i].verse,
         text  |-> MergedTexts(book, chapter, kjvVerses[i], webVerses)]]

\* kjvData.verses.map(...) of fetchVersesByReferences: FullVerse[]
MergeReference(ref, kjvVerses, webVerses) ==
    [i \in DOMAIN kjvVerses |->
        [book |-> ref.book, chapter |-> ref.chapter, verse |-> kjvVerses[i].verse,
         text |-> MergedTexts(ref.book, ref.chapter, kjvVerses[i], webVerses)]]

\* what a translation request has brought so far: nothing yet, a failure
\* (a status that is not ok; fetchTranslation throws) or a JSON body with or
\* without its verse list
Awaiting == [kind |-> "pending", hasVerses |-> FALSE, verses |-> << >>]
HttpFailure == [kind |-> "error", hasVerses |-> FALSE, verses |-> << >>]
Json(hasVerses, verses) == [kind |-> "json", hasVerses |-> hasVerses, verses |-> verses]

Translations == {"web", "kjv"}

HttpStatusError(version) == Err("Error", <<"HTTP error! status", version>>)
NoKjvVersesError == Err("Error", <<"No KJV verses found">>)
VersesTypeError == Err("TypeError", <<"webData.verses is undefined">>)
Thrown(e) == [status |-> "thrown", error |-> e]

\* `${book} ${chapter}`
ChapterString(book, chapter) == book \o <<" ">> \o FormatInt(chapter)

\* referenceString of a reference; an endVerse of undefined or 0 is falsy
ReferenceString(ref) ==
    ref.book \o <<" ">> \o FormatInt(ref.chapter) \o <<":">> \o FormatInt(ref.startVerse)
    \o (IF ref.endVerse # Undefined /\ ref.endVerse # 0
        THEN <<"-">> \o FormatInt(ref.endVerse) ELSE << >>)

Request(path, version) ==
    [path |-> path, translation |-> version, response |-> Awaiting]

\* both requests of pair i have been answered
PairIn(requests, i) ==
    \A v \in Translations : requests[<<i, v>>].response # Awaiting

ChapterOutcome_EmptyOnNoVerses(book, chapter, webData, kjvData) ==
    IF ~kjvData.hasVerses \/ kjvData.verses = << >> THEN Returned(<< >>)
    ELSE IF ~webData.hasVerses THEN Thrown(VersesTypeError)
    ELSE Returned(MergeChapter(book, chapter, kjvData.verses, webData.verses))

\* continuation of fetchChapter after Promise.all (616-639)
ChapterOutcome(book, chapter, webData, kjvData) ==
    IF ~kjvData.hasVerses \/ kjvData.verses = << >> THEN Thrown(NoKjvVersesError)
    ELSE IF ~webData.hasVerses THEN Thrown(VersesTypeError)
    ELSE Returned(MergeChapter(book, chapter, kjvData.verses, webData.verses))

\* continuation of one reference of fetchVersesByReferences (664-690)
ReferenceOutcome(ref, webData, kjvData) ==
    IF ~kjvData.hasVerses \/ kjvData.verses = << >> THEN Returned(<< >>)
    ELSE IF ~webData.hasVerses THEN Thrown(VersesTypeError)
    ELSE Returned(MergeReference(ref, kjvData.verses, webData.verses))

OutcomeOf(requests, refs, i) ==
    ReferenceOutcome(refs[i], requests[<<i, "web">>].response, requests[<<i, "kjv">>].response)

Flat_ByCompletion(requests, refs, latest) ==
    LET RECURSIVE Others(_)
        Others(i) == IF i > Len(refs) THEN << >>
                     ELSE (IF i = latest THEN << >> ELSE OutcomeOf(requests, refs, i).value)
                          \o Others(i + 1) IN
    Others(1) \o OutcomeOf(requests, refs, latest).value

\* results.flat(): the arrays of the references in the order of the input;
\* `latest` is the reference whose array was completed last
Flat(requests, refs, latest) ==
    LET RECURSIVE From(_)
        From(i) == IF i > Len(refs) THEN << >>
                   ELSE OutcomeOf(requests, refs, i).value \o From(i + 1) IN
    From(1)

(***************************************************************************)
(* Inputs and answers of the remote service                                *)
(***************************************************************************)
\* KJV verses from, from + 1, ... (n of them); the text has a line break
KjvVerses(from, n) ==
    [i \in 1..n |-> [verse |-> from + i - 1,
                     text |-> <<"k", "\n">> \o FormatInt(from + i - 1) \o <<" ">>]]

WebVerse(v) == [verse |-> v, text |-> <<" ", "w">> \o FormatInt(v) \o <<"\n">>]

\* the verses of a set in ascending order
RECURSIVE WebVerses(_)
WebVerses(numbers) ==
    IF numbers = {} THEN << >>
    ELSE LET least == CHOOSE v \in numbers : \A u \in numbers : v <= u IN
         <<WebVerse(least)>> \o WebVerses(numbers \ {least})

\* WEB verse lists: any verses of 1..MaxVerses + 1 in ascending order, all of
\* them in descending order, and a list with a verse number twice
ChapterWebLists ==
    {WebVerses(S) : S \in SUBSET (1..(MaxVerses + 1))}
    \cup {[i \in 1..MaxVerses |-> WebVerse(MaxVerses + 1 - i)]}
    \cup {<<[verse |-> 1, text |-> <<"x">>], WebVerse(1)>>}

ChapterResponses(version) ==
    {HttpFailure, Json(FALSE, << >>)}
    \cup IF version = "kjv" THEN {Json(TRUE, KjvVerses(1, n)) : n \in 0..MaxVerses}
         ELSE {Json(TRUE, l) : l \in ChapterWebLists}

ChapterInputs == {<<"J", "o", "h", "n">>, <<"E", "n", "o", "c", "h">>} \X {1, 2, 3}

\* verses a reference asks for
VerseCount(ref) ==
    IF ref.endVerse # Undefined /\ ref.endVerse >= ref.startVerse
    THEN ref.endVerse - ref.startVerse + 1 ELSE 1

ReferenceResponses(ref, version) ==
    IF version = "kjv"
    THEN {HttpFailure, Json(TRUE, << >>), Json(TRUE, KjvVerses(ref.startVerse, VerseCount(ref)))}
    ELSE {HttpFailure, Json(FALSE, << >>),
          Json(TRUE, WebVerses(ref.startVerse..(ref.startVerse + VerseCount(ref) - 1))),
          Json(TRUE, WebVerses((ref.startVerse + 1)..(ref.startVerse + VerseCount(ref))))}

ReferencePool ==
    {ParsedReference(<<"J", "o", "h", "n">>, 1, 2, Undefined), ParsedReference(<<"J", "u", "d", "e">>, 1, 2, 3)}

ReferenceLists == UNION {[1..n -> ReferencePool] : n \in 0..MaxRefs}

(***************************************************************************)
(* The two fetch operations as processes                                   *)
(***************************************************************************)
FetchInit ==
    /\ GatewayOff
    /\ ViewsOff
    /\ SvcIdle

\* fetchChapter up to its await: both translation requests are on their way
FetchChapterCall(book, chapter) ==
    /\ svcCall = NoCall
    /\ svcCall' = [fn |-> "fetchChapter", arg |-> [book |-> book, chapter |-> chapter]]
    /\ svcRequests' = [id \in {1} \X Translations |->
                          Request(ChapterString(book, chapter), id[2])]
    /\ svcResult' = Pending
    /\ UNCHANGED <<gatewayVars, viewVars, chatbot>>

\* a translation request of fetchChapter is answered.  Promise.all rejects
\* with the first failure and resolves when both bodies are there; the
\* catch block logs and throws again.
FetchChapterRespond(version, resp) ==
    LET requests == [svcRequests EXCEPT ![<<1, version>>].response = resp] IN
    /\ svcCall.fn = "fetchChapter"
    /\ svcRequests[<<1, version>>].response = Awaiting
    /\ svcRequests' = requests
    /\ svcResult' =
          IF svcResult # Pending THEN svcResult
          ELSE IF resp.kind = "error" THEN Thrown(HttpStatusError(version))
          ELSE IF ~PairIn(requests, 1) THEN Pending
          ELSE ChapterOutcome(svcCall.arg.book, svcCall.arg.chapter,
                              requests[<<1, "web">>].response,
                              requests[<<1, "kjv">>].response)
    /\ UNCHANGED <<svcCall, gatewayVars, viewVars, chatbot>>

\* fetchVersesByReferences up to its await: references.map starts the request
\* pair of every reference before anything is answered
FetchVersesByReferencesCall(references) ==
    /\ svcCall = NoCall
    /\ svcCall' = [fn |-> "fetchVersesByReferences", arg |-> references]
    /\ svcRequests' = [id \in (1..Len(references)) \X Translations |->
                          Request(ReferenceString(references[id[1]]), id[2])]
    /\ svcResult' = IF references = << >> THEN Returned(<< >>) ELSE Pending
    /\ UNCHANGED <<gatewayVars, viewVars, chatbot>>

\* a translation request of reference i is answered.  The promise of the
\* reference rejects with the first failure of its pair; the outer
\* Promise.all rejects with the first rejected reference and resolves when
\* every reference has its array.
FetchVersesByReferencesRespond(i, version, resp) ==
    LET requests == [svcRequests EXCEPT ![<<i, version>>].response = resp]
        references == svcCall.arg IN
    /\ svcCall.fn = "fetchVersesByReferences"
    /\ <<i, version>> \in DOMAIN svcRequests
    /\ svcRequests[<<i, version>>].response = Awaiting
    /\ svcRequests' = requests
    /\ svcResult' =
          IF svcResult # Pending THEN svcResult
          ELSE IF resp.kind = "error" THEN Thrown(HttpStatusError(version))
          ELSE IF ~PairIn(requests, i) THEN Pending
          ELSE IF OutcomeOf(requests, references, i).status = "thrown"
               THEN OutcomeOf(requests, references, i)
          ELSE IF \E k \in 1..Len(references) : ~PairIn(requests, k) THEN Pending
          ELSE Returned(Flat(requests, references, i))
    /\ UNCHANGED <<svcCall, gatewayVars, viewVars, chatbot>>

FetchNext ==
    \/ \E input \in ChapterInputs : FetchChapterCall(input[1], input[2])
    \/ \E v \in Translations :
          \E resp \in ChapterResponses(v) : FetchChapterRespond(v, resp)
    \/ \E references \in ReferenceLists : FetchVersesByReferencesCall(references)
    \/ /\ svcCall.fn = "fetchVersesByReferences"
       /\ \E id \in DOMAIN svcRequests :
             \E resp \in ReferenceResponses(svcCall.arg[id[1]], id[2]) :
                 FetchVersesByReferencesRespond(id[1], id[2], resp)

SpecFetch == FetchInit /\ [][FetchNext]_vars

(***************************************************************************)
(* Vocabulary of the fetch properties                                      *)
(***************************************************************************)
Fetching(fn) == svcCall.fn = fn
FetchReturned == svcResult.status = "returned"
FetchThrown == svcResult.status = "thrown"
PairCount == Cardinality(DOMAIN svcRequests) \div 2
KjvData(i) == svcRequests[<<i, "kjv">>].response
WebData(i) == svcRequests[<<i, "web">>].response
AllAnswered == \A id \in DOMAIN svcRequests : svcRequests[id].response # Awaiting
NoPrimaryVerses(i) ==
    KjvData(i).kind = "json" /\ (~KjvData(i).hasVerses \/ KjvData(i).verses = << >>)
PrimaryFailed(i) == KjvData(i).kind = "error" \/ NoPrimaryVerses(i)

\* the primary verses of all pairs in the order of the pairs, each with its pair
RECURSIVE PrimaryVersesFrom(_)
PrimaryVersesFrom(i) ==
    IF i > PairCount THEN << >>
    ELSE [k \in DOMAIN KjvData(i).verses |-> [pair |-> i, verse |-> KjvData(i).verses[k]]]
         \o PrimaryVersesFrom(i + 1)

\* the line breaks of a text are blanks, no blank at either end
IsCleaned(text, source) ==
    LET blanked == [k \in DOMAIN source |-> IF source[k] = "\n" THEN " " ELSE source[k]]
        inked == {k \in DOMAIN source : ~IsSpace(source[k])} IN
    /\ Len(text) = Cardinality({k \in DOMAIN source :
                                   \E a, b \in inked : a <= k /\ k <= b})
    /\ \A k \in DOMAIN text :
          text[k] = blanked[k - 1 + CHOOSE a \in inked : \A b \in inked : a <= b]

\* merged verse m stands for primary verse p of a pair whose secondary list is web
MergedFrom(m, p, web) ==
    LET same == {k \in DOMAIN web : web[k].verse = p.verse} IN
    /\ m.verse = p.verse
    /\ IsCleaned(m.text.KJV, p.text)
    /\ m.text.NIV = m.text.ESV
    /\ IF same = {} THEN m.text.ESV = m.text.KJV
       ELSE \E k \in same : /\ \A j \in same : k <= j
                            /\ IsCleaned(m.text.ESV, web[k].text)

\* C16: a fetch that returns has merged exactly one verse per verse of the
\* primary source, in the primary order and with the primary verse numbers,
\* whatever the secondary list holds; where the secondary list lacks the verse
\* number, the secondary translations carry the primary text.
C16_OneMergedVersePerPrimaryVerse ==
    (FetchReturned /\ (Fetching("fetchChapter") \/ Fetching("fetchVersesByReferences"))) =>
        LET primary == PrimaryVersesFrom(1) IN
        /\ Len(svcResult.value) = Len(primary)
        /\ \A k \in DOMAIN primary :
              MergedFrom(svcResult.value[k], primary[k].verse,
                         WebData(primary[k].pair).verses)

\* three primary verses, the secondary list lacks the second of them
C16_Witness ==
    /\ Fetching("fetchChapter") /\ FetchReturned
    /\ Len(KjvData(1).verses) = 3
    /\ {v.verse : v \in Range(WebData(1).verses)} = {1, 3}
    /\ Len(svcResult.value) = 3
    /\ svcResult.value[2].text.ESV = svcResult.value[2].text.KJV
    /\ svcResult.value[1].text.ESV # svcResult.value[1].text.KJV

\* C17 as claimed: when the primary source returns zero verses, the chapter
\* fetch and the multi-reference fetch both fail and return nothing.
C17_NoPrimaryVersesAlwaysFails ==
    \A i \in 1..PairCount : NoPrimaryVerses(i) => ~FetchReturned

\* C17 amended: when the primary source returns zero verses the chapter fetch
\* fails and never returns; the multi-reference fetch does not fail for that:
\* the reference adds no verse, and with zero verses for every reference the
\* fetch returns the empty list.
C17_NoPrimaryVersesFailsTheChapterOnly ==
    /\ Fetching("fetchChapter") /\ NoPrimaryVerses(1) =>
          /\ ~FetchReturned
          /\ AllAnswered => FetchThrown
    /\ (/\ Fetching("fetchVersesByReferences")
        /\ \A i \in 1..PairCount : NoPrimaryVerses(i) /\ WebData(i).kind = "json")
          => svcResult = Returned(<< >>)

\* a chapter fetch that failed for want of primary verses while the
\* secondary list was there
C17_Witness ==
    /\ Fetching("fetchChapter") /\ AllAnswered
    /\ NoPrimaryVerses(1)
    /\ WebData(1).kind = "json" /\ WebData(1).verses # << >>
    /\ svcResult = Thrown(NoKjvVersesError)

\* C18: a fetch fails as a whole only when the primary source fails, never for
\* a failed secondary request, and a multi-reference fetch that has the
\* primary verses of one reference does not fail for another reference.
C18_SecondaryFailureNeverAborts ==
    FetchThrown =>
        /\ \E i \in 1..PairCount : PrimaryFailed(i)
        /\ AllAnswered => \A i \in 1..PairCount : PrimaryFailed(i)

\* C19: the multi-reference fetch has the request pairs of all references
\* under way from its call on, returns only when every request is answered,
\* and returns the verses grouped by reference in the order of the input
\* list, whatever the order of the answers was.
C19_AllPairsJoinedInInputOrder ==
    Fetching("fetchVersesByReferences") =>
        /\ DOMAIN svcRequests = (1..Len(svcCall.arg)) \X Translations
        /\ \A id \in DOMAIN svcRequests :
              svcRequests[id].path = ReferenceString(svcCall.arg[id[1]])
        /\ FetchReturned =>
              LET primary == PrimaryVersesFrom(1) IN
              /\ AllAnswered
              /\ Len(svcResult.value) = Len(primary)
              /\ \A k \in DOMAIN primary :
                    /\ svcResult.value[k].book = svcCall.arg[primary[k].pair].book
                    /\ svcResult.value[k].chapter = svcCall.arg[primary[k].pair].chapter
                    /\ svcResult.value[k].verse = primary[k].verse.verse

\* two different references, both with verses, returned in input order
C19_Witness ==
    /\ Fetching("fetchVersesByReferences") /\ FetchReturned
    /\ Len(svcCall.arg) = 2
    /\ svcCall.arg[1] # svcCall.arg[2]
    /\ KjvData(1).verses # << >> /\ KjvData(2).verses # << >>
    /\ svcResult.value[1].book = svcCall.arg[1].book
    /\ svcResult.value[Len(svcResult.value)].book = svcCall.arg[2].book

(***************************************************************************)
(* C20.  A request in flight when the failure of another request starts    *)
(* the cooldown is neither cancelled nor failed: the step that starts the  *)
(* cooldown takes only its own request out of flight, and a request whose  *)
(* response arrives while the gateway is cooling returns its text, leaves  *)
(* the cooldown as it is and, for an analysis, stores the text in the      *)
(* cache.                                                                  *)
(***************************************************************************)
C20_InFlightRequestOutlivesCooldownStart ==
    [][ /\ (last'.phase = "settle" /\ globalCooldownUntil' # globalCooldownUntil)
           => inflight' = inflight (-) SetToBag({Req(last'.op, last'.mode, last'.vref,
                                                   last'.kind, last'.chat, last'.fresh)})
        /\ (last'.phase = "settle" /\ last'.resp.status = "ok" /\ now < globalCooldownUntil)
           => /\ last'.result = "return"
              /\ last'.text = last'.resp.text
              /\ globalCooldownUntil' = globalCooldownUntil
              /\ last'.op = "analyze"
                 => /\ cacheKey(last'.vref, last'.kind) \in DOMAIN verseCache'
                    /\ verseCache'[cacheKey(last'.vref, last'.kind)] = last'.resp.text
      ]_vars

\* an analysis answered during the cooldown that a later-settled request started
C20_Witness ==
    /\ IsSettle /\ last.op = "analyze" /\ last.resp.status = "ok"
    /\ rateLimitedAt >= 0
    /\ now < globalCooldownUntil
    /\ LastKey \in DOMAIN verseCache
    /\ verseCache[LastKey] = last.text

(***************************************************************************)
(* C24.  The cooldown error raised for a request refused at time now       *)
(* reports the remaining wait N = ceil((cooldownUntil - now) / 1000)       *)
(* seconds, and for every refused request 1 <= N <= 60.  safeGenerate      *)
(* reads the clock once for the refusal and once more for the message; a   *)
(* request refused in the last millisecond of the cooldown whose second    *)
(* reading falls on cooldownUntil or later reports 0 or fewer seconds.     *)
(***************************************************************************)
CoolingRefusal ==
    /\ Refused /\ last.op \in {"chat", "analyze"}
    /\ Len(last.text) = 3 /\ last.text[1] = "AI cooling down. Try again in "

C24_RemainingWaitIsOneToSixty ==
    CoolingRefusal
    => \E n \in 1..60 :
          /\ last.text = <<"AI cooling down. Try again in ", ToString(n), "s.">>
          /\ (n - 1) * 1000 < globalCooldownUntil - now
          /\ globalCooldownUntil - now <= n * 1000

(***************************************************************************)
(* C21.  Two analyze calls for the same key that overlap in time can both  *)
(* miss the cache and both perform a network call (no per-key in-flight    *)
(* deduplication); when both succeed the cache ends with a single entry    *)
(* for the key, holding the text of the call that completed last.          *)
(* An analyze call whose key is not cached is never answered on behalf of  *)
(* a request in flight: it is refused or sends its own request; and a      *)
(* request that succeeds leaves its text under the key, whatever was       *)
(* there.                                                                  *)
(***************************************************************************)
AnalyzeRequest(x) == Req("analyze", "", x[1], x[2], 0, FALSE)

C21_OverlappingCallsBothFetch ==
    /\ (IsCall /\ last.op = "analyze" /\ LastKey \notin DOMAIN verseCache)
       => /\ last.result \in {"pending", "throw"}
          /\ last.result = "pending"
             => (last.net /\ BagIn(AnalyzeRequest(LastInput), inflight))
    /\ (IsSettle /\ last.op = "analyze" /\ last.resp.status = "ok")
       => /\ last.result = "return" /\ last.text = last.resp.text
          /\ LastKey \in DOMAIN verseCache
          /\ verseCache[LastKey] = last.resp.text

\* a request succeeds after an earlier one for the same key has succeeded
\* with another text: both were sent, so the second was in flight when the
\* first completed, and the cache holds the text of the second
C21_Witness ==
    /\ IsSettle /\ last.op = "analyze" /\ last.resp.status = "ok"
    /\ analysed[LastInput].first # last.resp.text
    /\ verseCache[LastKey] = last.resp.text
    /\ Cardinality({k \in DOMAIN verseCache : k = LastKey}) = 1

(***************************************************************************)
(* C25 as stated: once an analyze call for a key has returned text t,      *)
(* every later analyze call for that key returns t, and the cache entry is *)
(* never overwritten with a different value.  A call that missed the cache *)
(* before the entry was written overwrites it when it completes (C21).     *)
(***************************************************************************)
C25_ReturnedTextNeverChanges ==
    /\ \A x \in AnalyzeInputs :
          analysed[x].set
          => /\ cacheKey(x[1], x[2]) \in DOMAIN verseCache
             /\ verseCache[cacheKey(x[1], x[2])] = analysed[x].first
    /\ (last.op = "analyze" /\ last.result = "return")
       => last.text = analysed[LastInput].first

(***************************************************************************)
(* C25 amended.  A cache entry, once written, is never removed; no request *)
(* is sent for a cached key, and every analyze call for a cached key       *)
(* returns the text the entry holds.  The entry changes only when a        *)
(* request for the same key that was already in flight succeeds, and it    *)
(* then holds the text of that request; with no such request in flight it  *)
(* keeps its value.                                                        *)
(***************************************************************************)
C25_EntryChangesOnlyByOverlappingCall ==
    [][ \A x \in AnalyzeInputs :
          LET k == cacheKey(x[1], x[2])
              before == CopiesIn(AnalyzeRequest(x), inflight)
              after == CopiesIn(AnalyzeRequest(x), inflight') IN
          k \in DOMAIN verseCache
          => /\ k \in DOMAIN verseCache'
             /\ after <= before
             /\ before = 0 => verseCache'[k] = verseCache[k]
             /\ verseCache'[k] # verseCache[k]
                => /\ last'.phase = "settle" /\ last'.op = "analyze"
                   /\ <<last'.vref, last'.kind>> = x
                   /\ last'.resp.status = "ok"
                   /\ verseCache'[k] = last'.resp.text
                   /\ after = before - 1
             /\ (last'.phase = "call" /\ last'.op = "analyze"
                 /\ <<last'.vref, last'.kind>> = x)
                => /\ last'.result = "return" /\ ~last'.net
                   /\ last'.text = verseCache[k]
      ]_vars

\* a call returns the text that replaced the one first returned for its key
C25_Witness ==
    /\ IsCall /\ last.op = "analyze" /\ last.result = "return"
    /\ analysed[LastInput].set
    /\ last.text # analysed[LastInput].first
    /\ last.text = verseCache[LastKey]

(***************************************************************************)
(* C26.  cooldownUntil never decreases: each rate-limit failure sets it to *)
(* a value >= its previous value, a second rate-limit failure of a request *)
(* in flight during the cooldown extends the window to 60 s after that     *)
(* later failure, and no other operation writes it.  A chat turn of a      *)
(* session mode that fails with a rate-limit message during the cooldown   *)
(* leaves cooldownUntil as it was (C2): the window is not extended.        *)
(***************************************************************************)
C26_CooldownOnlyMovesForward ==
    [][ /\ globalCooldownUntil' >= globalCooldownUntil
        /\ (last'.phase = "settle" /\ RateLimited(last'.resp)
            /\ now < globalCooldownUntil)
           => globalCooldownUntil' = now' + 60000
        /\ globalCooldownUntil' # globalCooldownUntil
           => (last'.phase = "settle" /\ RateLimited(last'.resp))
      ]_vars

(***************************************************************************)
(* C23.  The Telugu lookup by (book, chapter, verse) never raises and      *)
(* never changes the corpus: for a book that is not in the index, a        *)
(* chapter index out of range or a verse index out of range it yields      *)
(* undefined, and the merged verse then has no BSI_TELUGU key while its    *)
(* verse number and its KJV, ESV and NIV texts are what they are for a     *)
(* verse that is found.  A fetch whose two bodies carry their verse lists  *)
(* and at least one KJV verse returns, so no lookup of its merge raised.   *)
(***************************************************************************)
\* the corpus holds the verse: its book is in the table that the index is
\* built from, and the chapter and the verse are positions of the corpus
InCorpus(book, chapter, verse) ==
    \E b \in DOMAIN BIBLE_META :
       /\ BIBLE_META[b].name = book
       /\ b \in DOMAIN teluguBibleData.Book
       /\ chapter \in DOMAIN teluguBibleData.Book[b].Chapter
       /\ verse \in DOMAIN teluguBibleData.Book[b].Chapter[chapter].Verse

CorpusText(book, chapter, verse) ==
    LET b == CHOOSE i \in DOMAIN BIBLE_META : BIBLE_META[i].name = book IN
    teluguBibleData.Book[b].Chapter[chapter].Verse[verse].Verse

\* book and chapter that the request pair i was sent for
PairPlace(i) ==
    IF Fetching("fetchChapter") THEN svcCall.arg ELSE svcCall.arg[i]

C23_MissingTeluguVerseIsOmitted ==
    /\ (FetchReturned /\ (Fetching("fetchChapter") \/ Fetching("fetchVersesByReferences")))
       => LET primary == PrimaryVersesFrom(1) IN
          /\ Len(svcResult.value) = Len(primary)
          /\ \A k \in DOMAIN primary :
                LET m == svcResult.value[k]
                    place == PairPlace(primary[k].pair)
                    found == InCorpus(place.book, place.chapter, m.verse) IN
                /\ MergedFrom(m, primary[k].verse, WebData(primary[k].pair).verses)
                /\ ~found => DOMAIN m.text = {"KJV", "ESV", "NIV"}
                /\ "BSI_TELUGU" \in DOMAIN m.text
                   => /\ found
                      /\ m.text.BSI_TELUGU = CorpusText(place.book, place.chapter, m.verse)
                /\ (found /\ CorpusText(place.book, place.chapter, m.verse) # << >>)
                   => "BSI_TELUGU" \in DOMAIN m.text
    /\ (/\ Fetching("fetchChapter") \/ Fetching("fetchVersesByReferences")
        /\ AllAnswered
        /\ \A i \in 1..PairCount :
              /\ KjvData(i).kind = "json" /\ KjvData(i).hasVerses
              /\ WebData(i).kind = "json" /\ WebData(i).hasVerses
        /\ Fetching("fetchChapter") => KjvData(1).verses # << >>)
       => FetchReturned

\* a chapter of the corpus with a third verse that the corpus lacks: the
\* first merged verse has its Telugu text, the third has no such key
C23_Witness ==
    /\ Fetching("fetchChapter") /\ FetchReturned
    /\ Len(svcResult.value) = 3
    /\ InCorpus(svcCall.arg.book, svcCall.arg.chapter, 1)
    /\ ~InCorpus(svcCall.arg.book, svcCall.arg.chapter, 3)
    /\ "BSI_TELUGU" \in DOMAIN svcResult.value[1].text
    /\ DOMAIN svcResult.value[3].text = {"KJV", "ESV", "NIV"}
    /\ svcResult.value[3].text.KJV # << >>

(***************************************************************************)
(* Chatbot component (src/unnamed/part_000): the message list, the input   *)
(* box, the loading flag and the mode selector, with handleSend calling    *)
(* sendMessageToBot of the gateway.  The part of handleSend before the     *)
(* await is one step together with the synchronous prefix of               *)
(* sendMessageToBot; its continuation is one step together with the        *)
(* continuation of sendMessageToBot.  When sendMessageToBot returns        *)
(* without a network call, its promise is already resolved and the         *)
(* continuation of handleSend runs before any other event.                 *)
(***************************************************************************)
MaxSends == 2

\* what is typed into the input box: a blank, a question
ChatInputs == {<<" ">>, <<"w", "h", "y", "?">>}

\* what the remote service answers a chat turn with: a text, a rate-limit
\* failure, a failure without a message
ChatResponses ==
    {resp \in Responses : resp.text \in {<<"t1">>, <<"RESOURCE_EXHAUSTED">>, << >>}}

Message(sender, text) == [sender |-> sender, text |-> text]

\* useState defaults (46-50); the mode string behind ChatMode.STANDARD is one
\* of the three modes
ChatInit ==
    /\ GatewayInit
    /\ SvcIdle
    /\ app = Unmounted
    /\ tools = Unmounted
    /\ chatbot \in {[mounted |-> TRUE, messages |-> << >>, input |-> << >>,
                     isLoading |-> FALSE, chatMode |-> m] : m \in ChatModes}

\* onChange of the input box, which is disabled while loading
SetInput(text) ==
    /\ ~chatbot.isLoading
    /\ chatbot' = [chatbot EXCEPT !.input = text]
    /\ UNCHANGED <<gatewayVars, svcVars, viewVars>>

\* onChange of the mode selector
SetChatMode(mode) ==
    /\ chatbot' = [chatbot EXCEPT !.chatMode = mode]
    /\ UNCHANGED <<gatewayVars, svcVars, viewVars>>

\* variant: a blank input is sent
HandleSendReturnsEarly_AcceptsBlank == chatbot.isLoading

\* if (input.trim() === '' || isLoading) return;
HandleSendReturnsEarly == Trim(chatbot.input) = << >> \/ chatbot.isLoading

\* handleSend up to its await (Enter in the input box or the send button)
HandleSend ==
    IF HandleSendReturnsEarly
    THEN UNCHANGED vars
    ELSE /\ Len(chatbot.messages) < 2 * MaxSends
         /\ SendMessageToBot(chatbot.chatMode)
         /\ chatbot' =
               LET sent == Append(chatbot.messages, Message("user", chatbot.input)) IN
               IF last'.result = "pending"
               THEN [chatbot EXCEPT !.messages = sent, !.input = << >>,
                                    !.isLoading = TRUE]
               ELSE [chatbot EXCEPT !.messages = Append(sent, Message("bot", last'.text)),
                                    !.input = << >>, !.isLoading = FALSE]

\* handleSend after its await: the reply is appended and loading ends
HandleSendSettle(r, resp) ==
    /\ SendMessageToBotSettle(r, resp)
    /\ chatbot' = [chatbot EXCEPT !.messages = Append(@, Message("bot", last'.text)),
                                  !.isLoading = FALSE]

HandleSendSettles ==
    \E r \in BagToSet(inflight), resp \in ChatResponses : HandleSendSettle(r, resp)

ChatNext ==
    \/ \E d \in TickSteps : Tick(d)
    \/ \E text \in ChatInputs : SetInput(text)
    \/ \E mode \in ChatModes : SetChatMode(mode)
    \/ HandleSend
    \/ HandleSendSettles

\* every network call is answered at some time
SpecChat == ChatInit /\ [][ChatNext]_vars /\ WF_vars(HandleSendSettles)

(***************************************************************************)
(* C30.  A chat send never leaves the chatbot stuck: sendMessageToBot      *)
(* never rejects (a cooldown refusal, a missing credential and a failure   *)
(* of the remote call are returned as the reply text), every accepted send *)
(* appends one user message followed by one bot message and then clears    *)
(* the loading flag, and no send is accepted while the loading flag is set *)
(* or the input is blank: the message list always alternates user, bot,    *)
(* the flag is set exactly while the last message is a user message and    *)
(* its request is in flight, and a set flag is cleared at some time.       *)
(***************************************************************************)
ChatAlternates ==
    /\ \A i \in DOMAIN chatbot.messages :
          /\ chatbot.messages[i].sender = IF i % 2 = 1 THEN "user" ELSE "bot"
          /\ i % 2 = 1 => \E k \in DOMAIN chatbot.messages[i].text :
                             chatbot.messages[i].text[k] \notin SpaceChars
    /\ chatbot.isLoading <=> Len(chatbot.messages) % 2 = 1
    /\ InFlightCount = IF chatbot.isLoading THEN 1 ELSE 0
    /\ last.op = "chat"
       => /\ last.result \in {"pending", "return"}
          /\ last.result = "pending" <=> chatbot.isLoading
          /\ last.result = "return"
             => chatbot.messages[Len(chatbot.messages)] = Message("bot", last.text)

C30_SendNeverLeavesChatbotStuck ==
    /\ []ChatAlternates
    /\ chatbot.isLoading ~> ~chatbot.isLoading

\* the reply to the second send is the refusal of the cooling gateway
C30_Witness ==
    /\ Len(chatbot.messages) = 4 /\ ~chatbot.isLoading
    /\ IsCall /\ last.op = "chat" /\ ~last.net
    /\ now < globalCooldownUntil
    /\ chatbot.messages[4].sender = "bot"
    /\ chatbot.messages[4].text[1] = "AI cooling down. Try again in "
    /\ chatbot.messages[3].sender = "user"


\* ------------------------------------------------------------------
\* The App component (src/App.tsx): the selected book, chapter and verse,
\* navigation by buttons, URL hash and search box, and the effect that
\* loads the selected chapter
\* ------------------------------------------------------------------

\* user events of one run of the component, and promises awaited at once
MaxEvents == 2
MaxPending == 2

\* selectedVerseRef = null
NoVerseRef == [book |-> << >>, chapter |-> 0, verse |-> 0]

\* a promise the component awaits: fetchChapter(book, chapter),
\* fetchVersesByReferences(refs) of search case A or C, or
\* searchBibleByKeyword(query)
Awaited(op, case, book, chapter, refs, query) ==
    [op |-> op, case |-> case, book |-> book, chapter |-> chapter,
     refs |-> refs, query |-> query]

\* the state after the first render: the selection is the (book index,
\* chapter) pair that localStorage held, and the loadVerses effect has started
AppInit ==
    /\ GatewayOff
    /\ SvcIdle
    /\ chatbot = Unmounted
    /\ tools = Unmounted
    /\ \E s \in {<<1, 1>>, <<6, 21>>, <<7, 1>>, <<10, 1>>} :
         app = [mounted |-> TRUE,
                selectedBook |-> BIBLE_META[s[1]].name,
                selectedChapter |-> s[2],
                selectedVerseRef |-> NoVerseRef,
                isSearchView |-> FALSE,
                searchResults |-> << >>,
                searchError |-> << >>,
                isSearching |-> FALSE,
                searchQuery |-> << >>,
                verses |-> << >>,
                verseError |-> << >>,
                isLoadingVerses |-> TRUE,
                pending |-> SetToBag({Awaited("fetchChapter", "", BIBLE_META[s[1]].name,
                                              s[2], << >>, << >>)}),
                events |-> 0]

\* the render after a state update: the loadVerses effect runs again when
\* selectedBook, selectedChapter or isSearchView changed, and starts a
\* fetch unless the search view is shown
Commit(next) ==
    /\ app' = IF \/ <<next.selectedBook, next.selectedChapter, next.isSearchView>>
                    = <<app.selectedBook, app.selectedChapter, app.isSearchView>>
                 \/ next.isSearchView
              THEN next
              ELSE [next EXCEPT
                      !.isLoadingVerses = TRUE,
                      !.verseError = << >>,
                      !.pending = @ (+) SetToBag({Awaited("fetchChapter", "",
                                      next.selectedBook, next.selectedChapter,
                                      << >>, << >>)})]
    /\ BagCardinality(app'.pending) <= MaxPending
    /\ UNCHANGED <<gatewayVars, svcVars, chatbot, tools>>

\* an event of the user or the browser
UserEvent(next) ==
    /\ app.events < MaxEvents
    /\ \E counted \in {[next EXCEPT !.events = @ + 1]} : Commit(counted)

handleBookChange_KeepsChapter(book) ==
    [app EXCEPT !.selectedBook = book, !.selectedVerseRef = NoVerseRef]

handleBookChange(book) ==
    [app EXCEPT !.selectedBook = book, !.selectedChapter = 1,
                !.selectedVerseRef = NoVerseRef]

handleChapterChange(chapter) ==
    [app EXCEPT !.selectedChapter = chapter, !.selectedVerseRef = NoVerseRef]

\* BIBLE_META.findIndex(b => b.name === name), counted from 1; 0 when absent
BookIndex(name) ==
    LET hits == {i \in DOMAIN BIBLE_META : BIBLE_META[i].name = name} IN
    IF hits = {} THEN 0 ELSE CHOOSE i \in hits : \A j \in hits : i <= j

\* a book chosen in the book list of the navigation pane
HandleBookChange(book) ==
    /\ ~app.isSearchView
    /\ UserEvent(handleBookChange(book))

HandleNextChapter ==
    /\ ~app.isSearchView
    /\ LET bookMeta == MetaNamed(app.selectedBook)
           currentBookIndex == BookIndex(app.selectedBook) IN
       UserEvent(IF bookMeta = NullMeta THEN app
                 ELSE IF app.selectedChapter < bookMeta.chapters
                 THEN handleChapterChange(app.selectedChapter + 1)
                 ELSE IF currentBookIndex < Len(BIBLE_META)
                 THEN handleBookChange(BIBLE_META[currentBookIndex + 1].name)
                 ELSE app)

HandlePreviousChapter ==
    /\ ~app.isSearchView
    /\ LET currentBookIndex == BookIndex(app.selectedBook) IN
       UserEvent(IF app.selectedChapter > 1
                 THEN handleChapterChange(app.selectedChapter - 1)
                 ELSE IF currentBookIndex > 1
                 THEN [app EXCEPT
                         !.selectedBook = BIBLE_META[currentBookIndex - 1].name,
                         !.selectedChapter = BIBLE_META[currentBookIndex - 1].chapters,
                         !.selectedVerseRef = NoVerseRef]
                 ELSE app)

\* the clear button of the search results
HandleClearSearch ==
    /\ app.isSearchView
    /\ UserEvent([app EXCEPT !.isSearchView = FALSE, !.searchResults = << >>,
                             !.searchError = << >>])

\* hash.split('/') after the leading '#/' is removed
RECURSIVE SplitPath(_)
SplitPath(s) ==
    LET seps == {i \in DOMAIN s : s[i] = "/"} IN
    IF seps = {} THEN <<s>>
    ELSE LET i == CHOOSE k \in seps : \A j \in seps : k <= j IN
         <<SubSeq(s, 1, i - 1)>> \o SplitPath(SubSeq(s, i + 1, Len(s)))

\* decodeURIComponent(part.replace(/\+/g, ' ')); %20 is the escape that
\* encodeURIComponent writes in a book name
RECURSIVE DecodeBookName(_)
DecodeBookName(s) ==
    IF s = << >> THEN << >>
    ELSE IF s[1] = "+" THEN <<" ">> \o DecodeBookName(Tail(s))
    ELSE IF Len(s) >= 3 /\ SubSeq(s, 1, 3) = <<"%", "2", "0">>
    THEN <<" ">> \o DecodeBookName(SubSeq(s, 4, Len(s)))
    ELSE <<s[1]>> \o DecodeBookName(Tail(s))

\* the reference parseHashAndSetState reads in a hash: valid is false where
\* the function returns early; NaN and null are 0 - 1 and 0
HashReference(hash) ==
    LET NaN == 0 - 1
        parseInt(s) == IF RunEnd(s, 1, Digits) = 1 THEN NaN
                       ELSE ParseInt(SubSeq(s, 1, RunEnd(s, 1, Digits) - 1))
        parts == SplitPath(IF hash # << >> /\ hash[1] = "#"
                           THEN IF Len(hash) > 1 /\ hash[2] = "/"
                                THEN SubSeq(hash, 3, Len(hash)) ELSE Tail(hash)
                           ELSE hash)
        none == [valid |-> FALSE, book |-> << >>, chapter |-> 0, verse |-> 0] IN
    IF Len(parts) < 2 \/ parts[1] = << >> THEN none
    ELSE LET bookName == DecodeBookName(parts[1])
             chapterNum == parseInt(parts[2])
             verseNum == IF Len(parts) >= 3 /\ parts[3] # << >>
                         THEN parseInt(parts[3]) ELSE 0
             bookMeta == findBookMetadata(bookName) IN
         IF \/ bookMeta = NullMeta
            \/ chapterNum = NaN
            \/ chapterNum < 1
            \/ chapterNum > bookMeta.chapters
         THEN none
         ELSE [valid |-> TRUE, book |-> bookMeta.name, chapter |-> chapterNum,
               verse |-> IF verseNum = NaN THEN 0 ELSE verseNum]

\* the values of window.location.hash the browser reports
Hashes == {
    <<"#", "/", "J", "o", "h", "n", "/", "3">>,   \* '#/John/3'
    <<"#", "/", "J", "o", "h", "n", "/", "3", "/", "1", "6">>,   \* '#/John/3/16'
    <<"#", "/", "1", "+", "J", "o", "h", "n", "/", "2">>,   \* '#/1+John/2'
    <<"#", "/", "S", "o", "n", "g", "%", "2", "0", "o", "f", "%", "2", "0", "S", "o", "l", "o", "m", "o", "n", "/", "8", "/", "1">>,   \* '#/Song%20of%20Solomon/8/1'
    <<"#", "/", "J", "o", "h", "n", "/", "9", "9">>,   \* '#/John/99'
    <<"#", "/", "E", "n", "o", "c", "h", "/", "1">>,   \* '#/Enoch/1'
    <<"#", "/", "J", "o", "h", "n">>,   \* '#/John'
    <<"#", "/", "J", "o", "h", "n", "/", "x">>,   \* '#/John/x'
    <<"#", "/", "J", "u", "d", "e", "/", "1", "/", "0">> }   \* '#/Jude/1/0'


\* HashReference of every hash of the model, computed once
HashReferences == [hash \in Hashes |-> HashReference(hash)]

\* the state parseHashAndSetState(hash) leaves
parseHashAndSetState(hash) ==
    LET exited == [app EXCEPT !.isSearchView = FALSE]
        target == HashReferences[hash] IN
    IF ~target.valid THEN exited
    ELSE [exited EXCEPT
            !.selectedBook = target.book,
            !.selectedChapter = target.chapter,
            !.selectedVerseRef =
                IF target.verse # 0
                THEN [book |-> target.book, chapter |-> target.chapter,
                      verse |-> target.verse]
                ELSE NoVerseRef]

\* the hashchange event
HandleHashChange(hash) == UserEvent(parseHashAndSetState(hash))

\* the texts of the search box when the form is submitted
SearchQueries == {
    <<"J", "o", "h", "n", " ", "3", ":", "1", "6">>,   \* 'John 3:16'
    <<"J", "o", "h", "n", " ", "9", "9", ":", "1">>,   \* 'John 99:1'
    <<"J", "u", "d", "e", " ", "1", ":", "0">>,   \* 'Jude 1:0'
    <<"J", "o", "h", "n", " ", "1", ":", "2", ",", " ", "J", "u", "d", "e", " ", "1", ":", "2", "-", "3">>,   \* 'John 1:2, Jude 1:2-3'
    <<"f", "a", "i", "t", "h">>,   \* 'faith'
    <<" ">> }   \* ' '

\* the strings searchBibleByKeyword resolves with ('' after a failure)
KeywordReplies == {
    <<>>,   \* ''
    <<"J", "o", "h", "n", " ", "3", ":", "1", "6", ",", " ", "R", "o", "m", "a", "n", "s", " ", "8", ":", "2", "8">>,   \* 'John 3:16, Romans 8:28'
    <<"J", "u", "d", "e", " ", "1", ":", "3">>,   \* 'Jude 1:3'
    <<"n", "o", "n", "e">> }   \* 'none'

\* parseReferencesFromString of every text the model submits or receives,
\* computed once
ReferencesIn ==
    [text \in {Trim(t) : t \in SearchQueries} \cup KeywordReplies |->
        parseReferencesFromString(text)]

\* the submit event of the search form, up to the first await
HandleSearch(text) ==
    \E query \in {Trim(text)} :
    \E parsedReferences \in {IF query = << >> THEN << >> ELSE ReferencesIn[query]} :
    \E typed \in {[app EXCEPT !.searchQuery = text]} :
    \E cleared \in {[typed EXCEPT !.searchError = << >>]} :
    \E next \in {
      IF query = << >> THEN typed
      ELSE IF Len(parsedReferences) > 1
      THEN [cleared EXCEPT
              !.isSearching = TRUE,
              !.pending = @ (+) SetToBag({Awaited("fetchVersesByReferences", "A",
                              << >>, 0, parsedReferences, query)})]
      ELSE IF Len(parsedReferences) = 1
      THEN LET ref == parsedReferences[1]
               bookMeta == MetaNamed(ref.book) IN
           IF bookMeta = NullMeta \/ ref.chapter < 1 \/ ref.chapter > bookMeta.chapters
           THEN [cleared EXCEPT
                   !.searchError = <<"Invalid chapter for ">> \o ref.book \o <<".">>]
           ELSE [cleared EXCEPT
                   !.isSearchView = FALSE,
                   !.selectedBook = ref.book,
                   !.selectedChapter = ref.chapter,
                   !.selectedVerseRef =
                       IF ref.startVerse # 0
                       THEN [book |-> ref.book, chapter |-> ref.chapter,
                             verse |-> ref.startVerse]
                       ELSE NoVerseRef,
                   !.searchQuery = << >>]
      ELSE [cleared EXCEPT
              !.isSearching = TRUE,
              !.pending = @ (+) SetToBag({Awaited("searchBibleByKeyword", "C",
                              << >>, 0, << >>, query)})]} :
      UserEvent(next)

\* case C after searchBibleByKeyword has resolved
HandleSearchKeywordReply(p, referenceString) ==
    /\ BagIn(p, app.pending)
    /\ p.op = "searchBibleByKeyword"
    /\ \E keywordRefs \in {ReferencesIn[referenceString]} :
       \E resumed \in {[app EXCEPT !.pending = @ (-) SetToBag({p})]} :
       LET shown(message) ==
               [resumed EXCEPT
                  !.searchError = <<message>> \o p.query \o <<"\".">>,
                  !.searchResults = << >>,
                  !.isSearchView = TRUE,
                  !.isSearching = FALSE,
                  !.searchQuery = << >>] IN
       \E next \in {IF Trim(referenceString) = << >>
              THEN shown("No verses found for \"")
              ELSE IF keywordRefs = << >>
              THEN shown("Could not parse results for \"")
              ELSE [resumed EXCEPT
                      !.pending = @ (+) SetToBag({Awaited("fetchVersesByReferences",
                                      "C", << >>, 0, keywordRefs, p.query)})]} :
         Commit(next)

HandleSearchFetched_KeepsView(p, fulfilled) ==
    /\ BagIn(p, app.pending)
    /\ p.op = "fetchVersesByReferences"
    /\ \E next \in {[app EXCEPT
                 !.searchResults = IF fulfilled THEN p.refs ELSE @,
                 !.searchError =
                     IF fulfilled THEN @
                     ELSE IF p.case = "A" THEN <<"Failed to fetch results.">>
                     ELSE <<"An error occurred during keyword search.">>,
                 !.isSearching = FALSE,
                 !.searchQuery = << >>,
                 !.pending = @ (-) SetToBag({p})]} :
         Commit(next)

\* fetchVersesByReferences has settled: the end of case A or of case C;
\* the results are the verses of the references asked for
HandleSearchFetched(p, fulfilled) ==
    /\ BagIn(p, app.pending)
    /\ p.op = "fetchVersesByReferences"
    /\ \E next \in {[app EXCEPT
                 !.searchResults = IF fulfilled THEN p.refs ELSE @,
                 !.isSearchView = IF fulfilled THEN TRUE ELSE @,
                 !.searchError =
                     IF fulfilled THEN @
                     ELSE IF p.case = "A" THEN <<"Failed to fetch results.">>
                     ELSE <<"An error occurred during keyword search.">>,
                 !.isSearching = FALSE,
                 !.searchQuery = << >>,
                 !.pending = @ (-) SetToBag({p})]} :
         Commit(next)

\* fetchChapter has settled inside loadVerses; the verses are those of the
\* chapter that was asked for
LoadVersesSettle(p, fulfilled) ==
    /\ BagIn(p, app.pending)
    /\ p.op = "fetchChapter"
    /\ \E next \in {[app EXCEPT
                 !.verses = IF fulfilled THEN <<[book |-> p.book, chapter |-> p.chapter]>>
                            ELSE << >>,
                 !.verseError =
                     IF fulfilled THEN @
                     ELSE <<"Failed to load chapter. Please check your connection and try again.">>,
                 !.isLoadingVerses = FALSE,
                 !.pending = @ (-) SetToBag({p})]} :
         Commit(next)

AppNext ==
    \/ \E i \in {1, 6, 10} : HandleBookChange(BIBLE_META[i].name)
    \/ HandleNextChapter
    \/ HandlePreviousChapter
    \/ HandleClearSearch
    \/ \E hash \in Hashes : HandleHashChange(hash)
    \/ \E text \in SearchQueries : HandleSearch(text)
    \/ \E p \in BagToSet(app.pending), reply \in KeywordReplies :
         HandleSearchKeywordReply(p, reply)
    \/ \E p \in BagToSet(app.pending), fulfilled \in BOOLEAN :
         HandleSearchFetched(p, fulfilled)
    \/ \E p \in BagToSet(app.pending), fulfilled \in BOOLEAN :
         LoadVersesSettle(p, fulfilled)

SpecApp == AppInit /\ [][AppNext]_vars

\* C27: a valid selection stays valid, and the chapter buttons, an invalid
\* hash and an out-of-range search do what the boundary cases require
Selection == <<app.selectedBook, app.selectedChapter, app.selectedVerseRef>>

SelectionValid ==
    \E i \in DOMAIN BIBLE_META :
        /\ BIBLE_META[i].name = app.selectedBook
        /\ app.selectedChapter \in 1..BIBLE_META[i].chapters

\* hashes that name no chapter of the table, and searches for one
InvalidHashes == {<<"#", "/", "J", "o", "h", "n", "/", "9", "9">>, <<"#", "/", "E", "n", "o", "c", "h", "/", "1">>, <<"#", "/", "J", "o", "h", "n">>, <<"#", "/", "J", "o", "h", "n", "/", "x">>}

OutOfRangeQueries == {<<"J", "o", "h", "n", " ", "9", "9", ":", "1">>}

ChapterBoundarySteps ==
    LET i == CHOOSE k \in DOMAIN BIBLE_META : BIBLE_META[k].name = app.selectedBook
        atLast == app.selectedChapter = BIBLE_META[i].chapters
        atFirst == app.selectedChapter = 1 IN
    /\ HandleNextChapter /\ atLast =>
         IF i < Len(BIBLE_META)
         THEN /\ app'.selectedBook = BIBLE_META[i + 1].name
              /\ app'.selectedChapter = 1
         ELSE Selection' = Selection
    /\ HandlePreviousChapter /\ atFirst =>
         IF i > 1
         THEN /\ app'.selectedBook = BIBLE_META[i - 1].name
              /\ app'.selectedChapter = BIBLE_META[i - 1].chapters
         ELSE Selection' = Selection
    /\ \A hash \in InvalidHashes : HandleHashChange(hash) => Selection' = Selection
    /\ \A text \in OutOfRangeQueries : HandleSearch(text) => Selection' = Selection

ChapterFetchesInFlight == {p \in BagToSet(app.pending) : p.op = "fetchChapter"}

C28_DisplayedVersesAreOfTheSelection ==
    app.mounted /\ ~app.isSearchView /\ ChapterFetchesInFlight = {} =>
        \/ /\ app.verses = <<[book |-> app.selectedBook, chapter |-> app.selectedChapter]>>
           /\ app.verseError = << >>
        \/ /\ app.verses = << >>
           /\ app.verseError # << >>

\* C22: the search handler dispatches on the number of references in the query
\* the references each text of the model names, written out by hand
ReferencesNamed ==
    <<"J", "o", "h", "n", " ", "3", ":", "1", "6">> :> <<ParsedReference(<<"J", "o", "h", "n">>, 3, 16, Undefined)>> @@
    <<"J", "o", "h", "n", " ", "9", "9", ":", "1">> :> <<ParsedReference(<<"J", "o", "h", "n">>, 99, 1, Undefined)>> @@
    <<"J", "u", "d", "e", " ", "1", ":", "0">> :> <<ParsedReference(<<"J", "u", "d", "e">>, 1, 0, Undefined)>> @@
    <<"J", "o", "h", "n", " ", "1", ":", "2", ",", " ", "J", "u", "d", "e", " ", "1", ":", "2", "-", "3">> :> <<ParsedReference(<<"J", "o", "h", "n">>, 1, 2, Undefined), ParsedReference(<<"J", "u", "d", "e">>, 1, 2, 3)>> @@
    <<"f", "a", "i", "t", "h">> :> <<>> @@
    <<>> :> <<>> @@
    <<"J", "o", "h", "n", " ", "3", ":", "1", "6", ",", " ", "R", "o", "m", "a", "n", "s", " ", "8", ":", "2", "8">> :> <<ParsedReference(<<"J", "o", "h", "n">>, 3, 16, Undefined), ParsedReference(<<"R", "o", "m", "a", "n", "s">>, 8, 28, Undefined)>> @@
    <<"J", "u", "d", "e", " ", "1", ":", "3">> :> <<ParsedReference(<<"J", "u", "d", "e">>, 1, 3, Undefined)>> @@
    <<"n", "o", "n", "e">> :> <<>>

NavigationUnchanged ==
    /\ Selection' = Selection
    /\ app'.isSearchView = app.isSearchView

\* zeroIsAVerse: a start verse of 0 is selected like any other
SearchDispatch(zeroIsAVerse) ==
    /\ \A text \in SearchQueries :
         HandleSearch(text) /\ Trim(text) # << >> =>
           LET refs == ReferencesNamed[Trim(text)] IN
           IF Len(refs) > 1
           THEN /\ CopiesIn(Awaited("fetchVersesByReferences", "A", << >>, 0, refs,
                                    Trim(text)), app'.pending)
                   = CopiesIn(Awaited("fetchVersesByReferences", "A", << >>, 0, refs,
                                      Trim(text)), app.pending) + 1
                /\ NavigationUnchanged
           ELSE IF Len(refs) = 1
           THEN IF \E i \in DOMAIN BIBLE_META :
                      /\ BIBLE_META[i].name = refs[1].book
                      /\ refs[1].chapter \in 1..BIBLE_META[i].chapters
                THEN /\ ~app'.isSearchView
                     /\ app'.selectedBook = refs[1].book
                     /\ app'.selectedChapter = refs[1].chapter
                     /\ app'.selectedVerseRef =
                          IF refs[1].startVerse = 0 /\ ~zeroIsAVerse THEN NoVerseRef
                          ELSE [book |-> refs[1].book, chapter |-> refs[1].chapter,
                                verse |-> refs[1].startVerse]
                ELSE /\ app'.searchError # << >>
                     /\ NavigationUnchanged
           ELSE /\ CopiesIn(Awaited("searchBibleByKeyword", "C", << >>, 0, << >>,
                                    Trim(text)), app'.pending)
                   = CopiesIn(Awaited("searchBibleByKeyword", "C", << >>, 0, << >>,
                                      Trim(text)), app.pending) + 1
                /\ NavigationUnchanged
    /\ \A p \in BagToSet(app.pending) :
         HandleSearchFetched(p, TRUE) =>
           /\ app'.isSearchView
           /\ app'.searchResults = p.refs
           /\ app'.selectedBook = app.selectedBook
           /\ app'.selectedChapter = app.selectedChapter
    /\ \A p \in BagToSet(app.pending) :
         HandleSearchFetched(p, FALSE) =>
           /\ app'.searchError # << >>
           /\ NavigationUnchanged
    /\ \A p \in BagToSet(app.pending), reply \in KeywordReplies :
         HandleSearchKeywordReply(p, reply) =>
           IF ReferencesNamed[reply] # << >>
           THEN BagIn(Awaited("fetchVersesByReferences", "C", << >>, 0,
                              ReferencesNamed[reply], p.query), app'.pending)
           ELSE /\ app'.isSearchView
                /\ app'.searchResults = << >>
                /\ app'.searchError # << >>

\* C22 as stated: a single valid reference selects its start verse, whatever it is
C22_SingleReferenceSelectsStartVerse ==
    [][app.mounted => SearchDispatch(TRUE)]_vars

\* C22 amended: the same, but a start verse of 0 selects no verse
C22_SearchDispatchesOnReferenceCount ==
    [][app.mounted => SearchDispatch(FALSE)]_vars

\* a keyword search has ended in the results of the references of its reply
C22_Witness ==
    /\ app.mounted
    /\ app.isSearchView
    /\ ~app.isSearching
    /\ app.searchResults = ReferencesNamed[<<"J", "o", "h", "n", " ", "3", ":", "1", "6", ",", " ", "R", "o", "m", "a", "n", "s", " ", "8", ":", "2", "8">>]
    /\ app.searchError = << >>


\* ------------------------------------------------------------------
\* The VerseTools panel (src/components/VerseTools.tsx): one mounted
\* instance whose verseRef prop changes when another verse of the chapter
\* is selected
\* ------------------------------------------------------------------

\* verse selections and tab clicks of one run of the panel
MaxPanelEvents == 3

Tabs == {"Interlinear", "Cross-references", "Historical Context", "Notes"}

\* the verse numbers the panel is shown for
PanelVerses == {16, 17}

\* analysis[tab] = null
NullAnalysis == [verse |-> 0, tab |-> ""]

\* the text getVerseAnalysis(verse, tab) resolves with, or the notes of a verse
AnalysisOf(verse, tab) == [verse |-> verse, tab |-> tab]

\* the state after the mount: the reset effect has run, and both load
\* effects have called loadTab('Interlinear')
ToolsInit ==
    /\ GatewayOff
    /\ SvcIdle
    /\ chatbot = Unmounted
    /\ app = Unmounted
    /\ \E verse \in PanelVerses :
         tools = [mounted |-> TRUE,
                  verseRef |-> verse,
                  activeTab |-> "Interlinear",
                  analysis |-> [t \in Tabs |-> IF t = "Notes"
                                               THEN AnalysisOf(verse, "Notes")
                                               ELSE NullAnalysis],
                  loading |-> TRUE,
                  errorMsg |-> << >>,
                  pending |-> SetToBag({AnalysisOf(verse, "Interlinear")})
                              (+) SetToBag({AnalysisOf(verse, "Interlinear")}),
                  events |-> 0]

\* loadTab(tab) called in a render whose state is s, up to the await
loadTab(s, tab) ==
    IF tab = "Notes" THEN s
    ELSE IF s.analysis[tab] # NullAnalysis THEN s
    ELSE [s EXCEPT !.loading = TRUE,
                   !.errorMsg = << >>,
                   !.pending = @ (+) SetToBag({AnalysisOf(s.verseRef, tab)})]

\* the load effects of the render that follows an update to the state s:
\* each runs when one of its dependencies differs from the render before
LoadEffects(s) ==
    LET ensured == IF /\ <<s.activeTab, s.analysis["Interlinear"]>>
                          # <<tools.activeTab, tools.analysis["Interlinear"]>>
                      /\ s.activeTab = "Interlinear"
                      /\ s.analysis["Interlinear"] = NullAnalysis
                   THEN loadTab(s, "Interlinear") ELSE s IN
    IF s.activeTab # tools.activeTab THEN loadTab(ensured, s.activeTab)
    ELSE ensured

\* the parent passes a new verseRef: the reset effect, then the load effects
SelectVerse(verse) ==
    /\ tools.events < MaxPanelEvents
    /\ \E reset \in {[tools EXCEPT
                        !.verseRef = verse,
                        !.analysis = [t \in Tabs |-> IF t = "Notes"
                                                     THEN AnalysisOf(verse, "Notes")
                                                     ELSE NullAnalysis],
                        !.activeTab = "Interlinear",
                        !.errorMsg = << >>,
                        !.events = @ + 1]} :
         tools' = LoadEffects(reset)
    /\ UNCHANGED <<gatewayVars, svcVars, chatbot, app>>

\* a click on a tab
SetActiveTab(tab) ==
    /\ tools.events < MaxPanelEvents
    /\ \E clicked \in {[tools EXCEPT !.activeTab = tab, !.events = @ + 1]} :
         tools' = LoadEffects(clicked)
    /\ UNCHANGED <<gatewayVars, svcVars, chatbot, app>>

\* getVerseAnalysis has settled inside loadTab
LoadTabSettle(p, fulfilled) ==
    /\ BagIn(p, tools.pending)
    /\ \E settled \in {[tools EXCEPT
                          !.analysis[p.tab] = IF fulfilled THEN p ELSE @,
                          !.errorMsg = IF fulfilled THEN @
                                       ELSE <<"Failed to load content.">>,
                          !.loading = FALSE,
                          !.pending = @ (-) SetToBag({p})]} :
         tools' = LoadEffects(settled)
    /\ UNCHANGED <<gatewayVars, svcVars, chatbot, app>>

ToolsNext ==
    \/ \E verse \in PanelVerses : SelectVerse(verse)
    \/ \E tab \in Tabs : SetActiveTab(tab)
    \/ \E p \in BagToSet(tools.pending), fulfilled \in BOOLEAN : LoadTabSettle(p, fulfilled)

SpecTools == ToolsInit /\ [][ToolsNext]_vars

\* C29: every analysis the panel holds was generated for the selected verse,
\* and the analysis of the active tab is there, requested, or has failed
C29_AnalysisIsOfTheSelectedVerse ==
    tools.mounted =>
        /\ \A tab \in Tabs :
             tools.analysis[tab] # NullAnalysis =>
                 tools.analysis[tab].verse = tools.verseRef
        /\ tools.analysis[tools.activeTab] = NullAnalysis /\ tools.errorMsg = << >> =>
             BagIn(AnalysisOf(tools.verseRef, tools.activeTab), tools.pending)

====
